---- MODULE Spec2Model ----
(***************************************************************************)
(* cursor-commander: the Command Listener with its Activity Monitor        *)
(* (extension, latest generation), the Discovery Store (one port file per  *)
(* workspace identity) and the Bridge's resolve step.                      *)
(*                                                                         *)
(* Strings the code computes on (paths, keys, file contents) are sequences *)
(* of one-character strings, so that sanitizing, formatting and parsing    *)
(* are computed and not assumed.  Time is in milliseconds; the clock       *)
(* advances one poll period at a time.                                     *)
(***************************************************************************)
EXTENDS Integers, Sequences, FiniteSets, Bags

VARIABLES
    folders,              \* vscode.workspace.workspaceFolders (sequence of fsPaths)
    ephemeral,            \* the ports the operating system may hand out for listen(0)
    fs,                   \* the file system: function from present file paths to contents
    server,               \* "none" | "binding" | "listening" | "closed"
    port,                 \* server.address().port (0 before the bind)
    portFilePath,         \* Undefined or the path of the record written
    agentStatusItem,      \* [text, tooltip, color, visible]
    flashInterval,        \* TRUE iff the flash timer is armed
    flashOn,
    lastRequestTime,
    activityPollInterval, \* TRUE iff the idle-poll timer is armed
    currentStatus,
    now,                  \* Date.now()
    pollDue,              \* the poll period has elapsed and its callback has not run yet
    conns,                \* the requests in flight: a bag of [phase, command]
    lastResponse,         \* the response the last step wrote, NoResponse if it wrote none
    cwd,                  \* the Bridge's process.cwd()
    resolved,             \* the result of the Bridge's last getPort()
    everAccepted,         \* history: some POST request has been accepted
    lastAccept,           \* history: time of the last accepted request of the open burst, 0 if none
    burstEnters,          \* history: enter-thinking side effects performed in the open burst
    burstStartedThinking, \* history: the state was thinking before the burst's first request
    burstOverride,        \* history: a setAgentStatus idle/hidden was handled in the open burst
    quietIdles,           \* history: enter-idle effects of the poll since the last accepted request
    calmIdles,            \* history: enter-idle effects of the poll since the last recorded activity
    cleanedUp,            \* history: cleanup() has run
    hostCall,             \* the host capabilities the last step invoked, in order
    peer,                 \* a second Listener, in another host process: [folders, server, port, portFilePath]
    terminals,            \* vscode.window.terminals: sequence of [id, name]
    activeTerminal,       \* the id of vscode.window.activeTerminal, 0 for undefined
    activeToolCalls,      \* the Bridge's counter of tool calls in flight
    toolCalls,            \* the Bridge's tool-call handlers in flight: a bag of [pc, tool, result]
    started,              \* history: tool calls the Bridge has received
    pings,                \* history: the Bridge's calls of sendStatusUpdate, in order, each
                          \* with whether its ping went out
    commandsSent,         \* the command requests the Bridge sent in the last step
    lastResult,           \* the tool result the last step returned, NoResult if it returned none;
                          \* with it the tool called and the number of command requests sent for it
    lastAnswer,           \* the Listener's response to a command the Bridge read in the last step
    arrived,              \* the handlers in flight whose outstanding request has reached its
                          \* Listener: a sub-bag of toolCalls
    lastPing,             \* history: the status of the last ping a Listener received
    timed                 \* the timer-per-call generation of the Listener (src/src/extension.ts):
                          \* [agentStatusTimeout, timers, visible, text, now, calls, waits,
                          \*  status, fired, cleanedUp]

vars == <<folders, ephemeral, timed, fs, server, port, portFilePath, agentStatusItem,
          flashInterval, flashOn, lastRequestTime, activityPollInterval,
          currentStatus, now, pollDue, conns, lastResponse, cwd, resolved,
          everAccepted, lastAccept, burstEnters, burstStartedThinking,
          burstOverride, quietIdles, calmIdles, cleanedUp, hostCall, peer,
          terminals, activeTerminal, activeToolCalls, toolCalls, started, pings,
          commandsSent, lastResult, lastAnswer, arrived, lastPing>>

-----------------------------------------------------------------------------
(* Program constants and bounds *)

IDLE_AFTER_MS == 8000
POLL_MS == 1000

MaxTicks == 16      \* the clock stops after this many poll periods
MaxConns == 2       \* connections in flight at once
MaxEnters == 2      \* the burst's count of enter-thinking effects saturates here
MaxTerminals == 2    \* createTerminal is refused by the guard at this many open terminals
MaxStatusCalls == 3  \* setAgentStatus calls the timer-per-call generation receives
MaxWaits == 6        \* times its clock advances
MaxCalls == 3       \* tool calls one Bridge receives

StartTime == POLL_MS
MaxNow == StartTime + MaxTicks * POLL_MS

Undefined == <<>>

\* a piece of literal text; a message is a sequence of pieces
Lit(text) == <<text>>

\* the step invoked no host capability
NoCall == <<>>

-----------------------------------------------------------------------------
(* Strings *)

Digits == <<"0", "1", "2", "3", "4", "5", "6", "7", "8", "9">>
IsDigit(c) == \E i \in 1..10 : Digits[i] = c
DigitVal(c) == (CHOOSE i \in 1..10 : Digits[i] = c) - 1
IsSpace(c) == c \in {" ", "\n", "\t"}

RECURSIVE ToStringNat(_)
ToStringNat(n) ==
    IF n < 10 THEN <<Digits[n + 1]>>
    ELSE Append(ToStringNat(n \div 10), Digits[(n % 10) + 1])

\* String(n) for an integer n
StringOf(n) == IF n < 0 THEN <<"-">> \o ToStringNat(-n) ELSE ToStringNat(n)

RECURSIVE TrimLeft(_)
TrimLeft(s) == IF s # <<>> /\ IsSpace(Head(s)) THEN TrimLeft(Tail(s)) ELSE s

RECURSIVE TrimRight(_)
TrimRight(s) ==
    IF s # <<>> /\ IsSpace(s[Len(s)]) THEN TrimRight(SubSeq(s, 1, Len(s) - 1)) ELSE s

\* String.prototype.trim
Trim(s) == TrimRight(TrimLeft(s))

RECURSIVE DigitPrefix(_)
DigitPrefix(s) ==
    IF s # <<>> /\ IsDigit(Head(s)) THEN <<Head(s)>> \o DigitPrefix(Tail(s)) ELSE <<>>

RECURSIVE DigitsValue(_)
DigitsValue(d) ==
    IF d = <<>> THEN 0
    ELSE 10 * DigitsValue(SubSeq(d, 1, Len(d) - 1)) + DigitVal(d[Len(d)])

IntResult(n) == [kind |-> "int", value |-> n]
NaN == [kind |-> "NaN", value |-> 0]

\* parseInt(s, 10): leading white space is skipped, then an optional sign, then
\* the longest run of digits; NaN when there is no digit. It never throws.
ParseInt(s) ==
    LET t == TrimLeft(s)
        neg == t # <<>> /\ Head(t) = "-"
        u == IF t # <<>> /\ Head(t) \in {"-", "+"} THEN Tail(t) ELSE t
        d == DigitPrefix(u)
    IN  IF d = <<>> THEN NaN
        ELSE IntResult(IF neg THEN 0 - DigitsValue(d) ELSE DigitsValue(d))

RECURSIVE ReplaceSlashes(_)
ReplaceSlashes(s) ==
    IF s = <<>> THEN <<>>
    ELSE <<IF Head(s) = "/" THEN "-" ELSE Head(s)>> \o ReplaceSlashes(Tail(s))

\* a replace without the g flag: only the first separator left is replaced
sanitizeFirstOnly(fsPath) ==
    LET t == IF fsPath # <<>> /\ Head(fsPath) = "/" THEN Tail(fsPath) ELSE fsPath
    IN  IF \E i \in 1..Len(t) : t[i] = "/"
        THEN LET k == CHOOSE i \in 1..Len(t) : t[i] = "/" /\ \A j \in 1..(i - 1) : t[j] # "/"
             IN  [i \in 1..Len(t) |-> IF i = k THEN "-" ELSE t[i]]
        ELSE t

\* a first replace that takes every leading separator, /^\/+/
RECURSIVE sanitizeStripAll(_)
sanitizeStripAll(fsPath) ==
    IF fsPath # <<>> /\ Head(fsPath) = "/" THEN sanitizeStripAll(Tail(fsPath))
    ELSE ReplaceSlashes(fsPath)

\* fsPath.replace(/^\//, '').replace(/\//g, '-')
sanitizeWorkspacePath(fsPath) ==
    ReplaceSlashes(IF fsPath # <<>> /\ Head(fsPath) = "/" THEN Tail(fsPath) ELSE fsPath)

-----------------------------------------------------------------------------
(* Discovery Store *)

DEFAULT_KEY == <<"_", "d", "e", "f", "a", "u", "l", "t">>

\* path.join(PORTS_DIR, name); an empty name is the directory itself
PortsFile(name) == <<"PORTS_DIR", name>>
LEGACY_PORT_FILE == <<"HOME", <<".cursor-commander-port">>>>

Exists(f, p) == p \in DOMAIN f

WriteFile(f, p, content) ==
    [q \in (DOMAIN f) \cup {p} |-> IF q = p THEN content ELSE f[q]]

\* fs.unlinkSync inside try/catch: a missing file is not an error
Unlink(f, p) == [q \in (DOMAIN f) \ {p} |-> f[q]]

\* [defined |-> FALSE] stands for undefined
getWorkspaceKey(fl) ==
    IF fl = <<>> THEN [defined |-> FALSE, value |-> <<>>]
    ELSE [defined |-> TRUE, value |-> sanitizeWorkspacePath(fl[1])]


\* mutant: the record is always written under the sentinel
getPortFilePathDefault(fl) == PortsFile(DEFAULT_KEY)

\* `if (key)`: undefined and the empty string are both falsy
getPortFilePath(fl) ==
    LET key == getWorkspaceKey(fl)
    IN  IF key.defined /\ key.value # <<>> THEN PortsFile(key.value)
        ELSE PortsFile(DEFAULT_KEY)

\* getPort throws "... is not running for workspace ..."
DiscoveryMiss == [kind |-> "DiscoveryMiss", value |-> 0]

Candidates(key) == <<PortsFile(key), PortsFile(DEFAULT_KEY), LEGACY_PORT_FILE>>

\* one turn of getPort's loop: readFileSync throws for a missing file (and for
\* the directory), and then the next candidate is tried; parseInt never throws
RECURSIVE TryCandidates(_, _)
TryCandidates(f, cands) ==
    IF cands = <<>> THEN DiscoveryMiss
    ELSE IF Exists(f, Head(cands)) THEN ParseInt(Trim(f[Head(cands)]))
    ELSE TryCandidates(f, Tail(cands))

getPortForKey(f, key) == TryCandidates(f, Candidates(key))


\* mutant: with no record, a fixed port is tried
getPortFixedFallback(f, dir) ==
    LET r == getPortForKey(f, sanitizeWorkspacePath(dir))
    IN  IF r = DiscoveryMiss THEN IntResult(3000) ELSE r

getPort(f, dir) == getPortForKey(f, sanitizeWorkspacePath(dir))

-----------------------------------------------------------------------------
(* Activity Monitor: the presence state and its indicator.  The operators   *)
(* below work on a record m of the monitor's variables; m.calls lists the   *)
(* host calls the code performs, in order.                                  *)

Statuses == {"thinking", "idle", "hidden"}

NewStatusBarItem == [text |-> "", tooltip |-> "", color |-> "", visible |-> FALSE]

Monitor ==
    [lastRequestTime |-> lastRequestTime, currentStatus |-> currentStatus,
     flashInterval |-> flashInterval, flashOn |-> flashOn,
     item |-> agentStatusItem, calls |-> <<>>]

startFlash(m) ==
    IF m.flashInterval THEN m
    ELSE [m EXCEPT !.flashOn = TRUE,
                   !.item.text = "$(circle-filled)",
                   !.flashInterval = TRUE,
                   !.calls = Append(@, "setInterval")]

stopFlash(m) ==
    [m EXCEPT !.flashInterval = FALSE,
              !.item.text = "$(circle-filled)",
              !.calls = IF m.flashInterval THEN Append(@, "clearInterval") ELSE @]

\* the flash timer's callback
FlashToggle(m) ==
    [m EXCEPT !.flashOn = ~m.flashOn,
              !.item.text = IF ~m.flashOn THEN "$(circle-filled)" ELSE "$(circle-outline)"]


\* mutant: the transition without its dedup check
setAgentStatusDisplayNoDedup(status, m) ==
    LET m1 == [m EXCEPT !.currentStatus = status]
    IN  IF status = "thinking" THEN
            startFlash([m1 EXCEPT !.item.tooltip = "Agent is working...",
                                  !.item.color = "green",
                                  !.item.visible = TRUE,
                                  !.calls = Append(@, "thinking.show")])
        ELSE IF status = "idle" THEN
            LET m2 == stopFlash(m1)
            IN  [m2 EXCEPT !.item.tooltip = "Waiting for you",
                           !.item.color = "green",
                           !.item.visible = TRUE,
                           !.calls = Append(@, "idle.show")]
        ELSE
            LET m2 == stopFlash(m1)
            IN  [m2 EXCEPT !.item.visible = FALSE,
                           !.calls = Append(@, "hidden.hide")]

\* mutant: the dedup check compares with the glyph phase instead of the state
setAgentStatusDisplayStale(status, m) ==
    IF status = m.currentStatus /\ m.flashOn THEN m
    ELSE setAgentStatusDisplayNoDedup(status, m)

setAgentStatusDisplay(status, m) ==
    IF status = m.currentStatus THEN m
    ELSE LET m1 == [m EXCEPT !.currentStatus = status]
         IN  IF status = "thinking" THEN
                 startFlash([m1 EXCEPT !.item.tooltip = "Agent is working...",
                                       !.item.color = "green",
                                       !.item.visible = TRUE,
                                       !.calls = Append(@, "thinking.show")])
             ELSE IF status = "idle" THEN
                 LET m2 == stopFlash(m1)
                 IN  [m2 EXCEPT !.item.tooltip = "Waiting for you",
                                !.item.color = "green",
                                !.item.visible = TRUE,
                                !.calls = Append(@, "idle.show")]
             ELSE
                 LET m2 == stopFlash(m1)
                 IN  [m2 EXCEPT !.item.visible = FALSE,
                                !.calls = Append(@, "hidden.hide")]


\* mutant: the activity is shown but its time is not recorded
onRequestActivityNoStamp(m, t) == setAgentStatusDisplay("thinking", m)

onRequestActivity(m, t) ==
    setAgentStatusDisplay("thinking", [m EXCEPT !.lastRequestTime = t])


\* mutant: the threshold itself does not count as exceeded
PollWantsIdleStrict(m, t) ==
    /\ m.lastRequestTime # 0
    /\ m.currentStatus = "thinking"
    /\ t - m.lastRequestTime > IDLE_AFTER_MS

\* mutant: the age is computed the wrong way round
PollWantsIdleSwapped(m, t) ==
    /\ m.lastRequestTime # 0
    /\ m.currentStatus = "thinking"
    /\ m.lastRequestTime - t >= IDLE_AFTER_MS

\* mutant: the poll looks at the age alone
PollWantsIdleUnguarded(m, t) == t - m.lastRequestTime >= IDLE_AFTER_MS

\* the condition under which the poll's callback asks for idle
PollWantsIdle(m, t) ==
    /\ m.lastRequestTime # 0
    /\ m.currentStatus = "thinking"
    /\ t - m.lastRequestTime >= IDLE_AFTER_MS

\* the callback startActivityPolling arms
PollCallback(m, t) ==
    IF PollWantsIdle(m, t) THEN setAgentStatusDisplay("idle", m) ELSE m

\* handleCommand, case 'setAgentStatus': any status but thinking and idle hides
StatusTarget(status) ==
    IF status = "thinking" THEN "thinking"
    ELSE IF status = "idle" THEN "idle"
    ELSE "hidden"

Count(calls, c) == Cardinality({i \in 1..Len(calls) : calls[i] = c})
EnterThinkingEffects(m) == Count(m.calls, "thinking.show")
EnterIdleEffects(m) == Count(m.calls, "idle.show")

\* the monitor's variables take the values of the record m
SetMonitor(m) ==
    /\ lastRequestTime' = m.lastRequestTime
    /\ currentStatus' = m.currentStatus
    /\ flashInterval' = m.flashInterval
    /\ flashOn' = m.flashOn
    /\ agentStatusItem' = m.item

-----------------------------------------------------------------------------
(* Requests *)

\* a request in flight is reading its body or awaiting the host action of its
\* command; the requests have no identity beyond that
Reading == [phase |-> "reading", command |-> ""]
AwaitingHost(c) == [phase |-> "awaiting", command |-> c]
\* the 'end' listener has ended with an exception: nothing will answer
Hung(c) == [phase |-> "hung", command |-> c]
InFlight(r) == BagIn(r, conns)
Add(r) == conns (+) SetToBag({r})
Move(r, q) == (conns (-) SetToBag({r})) (+) SetToBag({q})
Remove(r) == conns (-) SetToBag({r})

\* The request bodies: one that JSON.parse rejects, and {command, args} with
\* a command of the dispatch table that awaits the host (saveAll), the three
\* kinds of setAgentStatus argument, and a command the table does not hold.
\* the args of a terminal command: name and index, each given or not
NoName == [given |-> FALSE, value |-> ""]
Name(n) == [given |-> TRUE, value |-> n]
NoIndex == [given |-> FALSE, value |-> 0]
Index(i) == [given |-> TRUE, value |-> i]
TerminalArgs(name, index) == [name |-> name, index |-> index]
NoTarget == TerminalArgs(NoName, NoIndex)

Malformed == [malformed |-> TRUE, command |-> "", status |-> "", target |-> NoTarget]
Body(c, s) == [malformed |-> FALSE, command |-> c, status |-> s, target |-> NoTarget]
TerminalBody(c, a) == [malformed |-> FALSE, command |-> c, status |-> "", target |-> a]
Bodies ==
    {Malformed, Body("saveAll", ""), Body("frobnicate", "")}
        \cup {Body("setAgentStatus", s) : s \in {"thinking", "idle", "off"}}

\* a response: the status, whether a body was written, and for a body its
\* success and error members; with it the command, status and terminal args
\* of the request it answers
NoResponse ==
    [status |-> 0, body |-> FALSE, success |-> FALSE, command |-> "", arg |-> "",
     target |-> NoTarget, error |-> <<>>]
Ok200(b) ==
    [status |-> 200, body |-> TRUE, success |-> TRUE, command |-> b.command,
     arg |-> b.status, target |-> b.target, error |-> <<>>]
Err500(b, msg) ==
    [status |-> 500, body |-> TRUE, success |-> FALSE, command |-> b.command,
     arg |-> b.status, target |-> b.target, error |-> msg]
Rejected405 ==
    [status |-> 405, body |-> FALSE, success |-> FALSE, command |-> "", arg |-> "",
     target |-> NoTarget, error |-> <<>>]

\* the command names handleCommand's switch has a case for
\* the table of a Listener without the terminal commands
DispatchTableEditorsOnly ==
    {"saveAll", "closeAllEditors", "closeActiveEditor", "openFile", "getOpenFiles",
     "showMessage", "executeCommand", "setAgentStatus"}

\* the case labels of handleCommand's switch
DispatchTable ==
    {"saveAll", "closeAllEditors", "closeActiveEditor", "openFile", "getOpenFiles",
     "showMessage", "executeCommand", "listTerminals", "createTerminal",
     "sendTerminalText", "closeTerminal", "showTerminal", "setAgentStatus"}

\* names no case matches: an arbitrary one, one that differs in case, the name
\* of an Object.prototype member, and the text of a command that is missing
UnknownNames == {"frobnicate", "SaveAll", "constructor", "undefined"}

CommandNames == DispatchTable \cup UnknownNames

\* vscode.commands.executeCommand(id)
HostCommand(id) == [op |-> "executeCommand", target |-> 0, arg |-> Lit(id)]

InBurst == lastAccept # 0

Saturate(n) == IF n > MaxEnters THEN MaxEnters ELSE n

\* history of the open burst, for a step that runs the monitor to m
CountInBurst(m, override) ==
    /\ burstEnters' =
           IF InBurst THEN Saturate(burstEnters + EnterThinkingEffects(m)) ELSE burstEnters
    /\ burstOverride' = IF InBurst THEN burstOverride \/ override ELSE burstOverride
    /\ UNCHANGED <<lastAccept, burstStartedThinking>>

Fleet == <<peer>>
HostState == <<terminals, activeTerminal>>
BridgeState ==
    <<activeToolCalls, toolCalls, started, pings, commandsSent, lastResult, lastAnswer,
      arrived, lastPing>>
Env == <<folders, ephemeral, timed, cwd, resolved, Fleet, HostState, BridgeState>>
Lifecycle == <<server, port, portFilePath, fs, activityPollInterval, cleanedUp>>
MonitorVars == <<agentStatusItem, flashInterval, flashOn, lastRequestTime, currentStatus>>
BurstHistory == <<lastAccept, burstEnters, burstStartedThinking, burstOverride>>
IdleHistory == <<quietIdles, calmIdles>>

-----------------------------------------------------------------------------
(* Listener lifecycle *)

\* activate(): create the status bar item, arm the poll, create the server and
\* start the bind on an ephemeral port
Activate ==
    /\ server = "none"
    /\ agentStatusItem' = NewStatusBarItem
    /\ activityPollInterval' = TRUE
    /\ server' = "binding"
    /\ lastResponse' = NoResponse
    /\ hostCall' = NoCall
    /\ UNCHANGED <<Env, fs, port, portFilePath, cleanedUp, flashInterval, flashOn,
                   lastRequestTime, currentStatus, now, pollDue, conns, everAccepted,
                   BurstHistory, IdleHistory>>

\* the ports a Listener holds: listen(0) gives no port that is in use
BoundBy(srv, p) == IF srv = "listening" THEN {p} ELSE {}

\* the callback of server.listen: publish the bound port.  Nothing in it asks
\* whether cleanup() has run in the meantime.
ListenCallback ==
    /\ server = "binding"
    /\ \E p \in ephemeral \ BoundBy(peer.server, peer.port) :
        /\ port' = p
        /\ portFilePath' = getPortFilePath(folders)
        /\ fs' = WriteFile(fs, getPortFilePath(folders), StringOf(p))
    /\ server' = "listening"
    /\ lastResponse' = NoResponse
    /\ hostCall' = NoCall
    /\ UNCHANGED <<Env, MonitorVars, activityPollInterval, cleanedUp, now, pollDue,
                   conns, everAccepted, BurstHistory, IdleHistory>>

\* server.close() on a server whose bind is still pending: the host's runtime
\* either abandons the bind, or finds no handle to close and lets the bind go
\* on to its callback; on a bound server it stops the listening
CloseOutcomes(srv) == IF srv = "binding" THEN {"closed", "binding"} ELSE {"closed"}

\* cleanup(), run by deactivate() and by the disposable
Cleanup ==
    /\ server # "none"
    /\ SetMonitor(stopFlash(Monitor))
    /\ activityPollInterval' = FALSE
    /\ pollDue' = FALSE
    /\ server' \in CloseOutcomes(server)
    /\ cleanedUp' = TRUE
    /\ fs' = IF portFilePath # Undefined THEN Unlink(fs, portFilePath) ELSE fs
    /\ lastResponse' = NoResponse
    /\ hostCall' = NoCall
    /\ UNCHANGED <<Env, port, portFilePath, now, conns, everAccepted,
                   BurstHistory, IdleHistory>>

-----------------------------------------------------------------------------
(* A second Listener: the same lifecycle, run by another host process on   *)
(* the same Discovery Store.                                                *)

PeerActivate ==
    /\ peer.server = "none"
    /\ peer' = [peer EXCEPT !.server = "binding"]
    /\ lastResponse' = NoResponse
    /\ hostCall' = NoCall
    /\ UNCHANGED <<folders, ephemeral, timed, cwd, resolved, HostState, BridgeState, Lifecycle,
                   MonitorVars, now, pollDue, conns, everAccepted, BurstHistory,
                   IdleHistory>>

PeerListenCallback ==
    /\ peer.server = "binding"
    /\ \E p \in ephemeral \ BoundBy(server, port) :
        /\ peer' = [peer EXCEPT !.server = "listening",
                                !.port = p,
                                !.portFilePath = getPortFilePath(peer.folders)]
        /\ fs' = WriteFile(fs, getPortFilePath(peer.folders), StringOf(p))
    /\ lastResponse' = NoResponse
    /\ hostCall' = NoCall
    /\ UNCHANGED <<folders, ephemeral, timed, cwd, resolved, HostState, BridgeState, server, port,
                   portFilePath, activityPollInterval, cleanedUp, MonitorVars, now,
                   pollDue, conns, everAccepted, BurstHistory, IdleHistory>>

PeerCleanup ==
    /\ peer.server # "none"
    /\ \E outcome \in CloseOutcomes(peer.server) :
        peer' = [peer EXCEPT !.server = outcome]
    /\ fs' = IF peer.portFilePath # Undefined THEN Unlink(fs, peer.portFilePath) ELSE fs
    /\ lastResponse' = NoResponse
    /\ hostCall' = NoCall
    /\ UNCHANGED <<folders, ephemeral, timed, cwd, resolved, HostState, BridgeState, server, port,
                   portFilePath, activityPollInterval, cleanedUp, MonitorVars, now,
                   pollDue, conns, everAccepted, BurstHistory, IdleHistory>>

-----------------------------------------------------------------------------
(* Request handling *)

\* a handler that counts every request as activity before looking at its method
RejectNonPostAfterActivity ==
    /\ server = "listening"
    /\ LET m == onRequestActivity(Monitor, now)
       IN  /\ SetMonitor(m)
           /\ CountInBurst(m, FALSE)
    /\ calmIdles' = 0
    /\ lastResponse' = Rejected405
    /\ hostCall' = NoCall
    /\ UNCHANGED <<Env, Lifecycle, now, pollDue, conns, everAccepted, quietIdles>>

\* a request whose method is not POST: 405, no body, nothing else
RejectNonPost ==
    /\ server = "listening"
    /\ lastResponse' = Rejected405
    /\ hostCall' = NoCall
    /\ UNCHANGED <<Env, Lifecycle, MonitorVars, now, pollDue, conns, everAccepted,
                   BurstHistory, IdleHistory>>

\* the request handler for a POST, up to the registration of the body
\* listeners: onRequestActivity()
AcceptAs(r) ==
    /\ server = "listening"
    /\ BagCardinality(conns) < MaxConns
    /\ LET m == onRequestActivity(Monitor, now)
       IN  /\ SetMonitor(m)
           /\ burstEnters' =
                  Saturate((IF InBurst THEN burstEnters ELSE 0) + EnterThinkingEffects(m))
    /\ burstStartedThinking' =
           IF InBurst THEN burstStartedThinking ELSE currentStatus = "thinking"
    /\ burstOverride' = IF InBurst THEN burstOverride ELSE FALSE
    /\ lastAccept' = now
    /\ everAccepted' = TRUE
    /\ quietIdles' = 0
    /\ calmIdles' = 0
    /\ conns' = Add(r)
    /\ lastResponse' = NoResponse
    /\ hostCall' = NoCall
    /\ UNCHANGED <<Env, Lifecycle, now, pollDue>>

\* a POST whose body's arrival is not followed chunk by chunk
Accept == AcceptAs(Reading)

\* The body of a request arrives as chunks of bytes.  No encoding is set on
\* the request, so each chunk is a Buffer and `body += chunk` appends the
\* chunk's own UTF-8 decoding.  Bytes are "a" (one ASCII byte) and "C3", "A9"
\* (the two bytes of U+00E9); a byte sequence that is no character decodes to
\* U+FFFD.
RECURSIVE Decode(_)
Decode(bytes) ==
    IF bytes = << >> THEN << >>
    ELSE IF Head(bytes) = "a" THEN <<"a">> \o Decode(Tail(bytes))
    ELSE IF Head(bytes) = "C3" /\ Len(bytes) >= 2 /\ bytes[2] = "A9"
         THEN <<"U+00E9">> \o Decode(Tail(Tail(bytes)))
    ELSE <<"U+FFFD">> \o Decode(Tail(bytes))

\* a request for sendTerminalText on the active terminal whose text is the
\* bytes `sent`: `rest` is still to arrive, `body` is the handler's variable
Receiving(sent, rest, body) ==
    [phase |-> "receiving", command |-> "sendTerminalText", sent |-> sent,
     rest |-> rest, body |-> body]

\* req.on('data'): the next k bytes arrive as one chunk
DataChunk(r, k) ==
    /\ InFlight(r)
    /\ r.phase = "receiving"
    /\ k \in 1..Len(r.rest)
    /\ conns' = Move(r, Receiving(r.sent, SubSeq(r.rest, k + 1, Len(r.rest)),
                         r.body \o Decode(SubSeq(r.rest, 1, k))))
    /\ lastResponse' = NoResponse
    /\ hostCall' = NoCall
    /\ UNCHANGED <<Env, Lifecycle, MonitorVars, now, pollDue, everAccepted,
                   BurstHistory, IdleHistory>>

\* the 'end' listener for a body JSON.parse rejects: the catch answers 500
EndMalformed ==
    /\ InFlight(Reading)
    /\ lastResponse' = Err500(Malformed, Lit("SyntaxError"))
    /\ hostCall' = NoCall
    /\ conns' = Remove(Reading)
    /\ UNCHANGED <<Env, Lifecycle, MonitorVars, now, pollDue, everAccepted,
                   BurstHistory, IdleHistory>>

\* a dispatch that looks the name up in a table object instead: a name every
\* object inherits is found
EndUnknownByLookup(x) ==
    /\ InFlight(Reading)
    /\ x \notin DispatchTable
    /\ lastResponse' =
           IF x = "constructor" THEN Ok200(Body(x, ""))
           ELSE Err500(Body(x, ""), Lit("Unknown command: ") \o Lit(x))
    /\ hostCall' = IF x = "constructor" THEN <<HostCommand(x)>> ELSE NoCall
    /\ conns' = Remove(Reading)
    /\ UNCHANGED <<Env, Lifecycle, MonitorVars, now, pollDue, everAccepted,
                   BurstHistory, IdleHistory>>

\* the 'end' listener for a command no case of handleCommand's switch names:
\* the default throws, the catch answers 500
EndUnknown(x) ==
    /\ InFlight(Reading)
    /\ x \notin DispatchTable
    /\ lastResponse' = Err500(Body(x, ""), Lit("Unknown command: ") \o Lit(x))
    /\ hostCall' = NoCall
    /\ conns' = Remove(Reading)
    /\ UNCHANGED <<Env, Lifecycle, MonitorVars, now, pollDue, everAccepted,
                   BurstHistory, IdleHistory>>

\* the 'end' listener for setAgentStatus: the handler has nothing to wait for,
\* so handleCommand, the onRequestActivity() after it and the answer run
\* with no other callback in between
EndSetAgentStatus(status) ==
    /\ InFlight(Reading)
    /\ LET m1 == setAgentStatusDisplay(StatusTarget(status), Monitor)
           m2 == onRequestActivity(m1, now)
       IN  /\ SetMonitor(m2)
           /\ CountInBurst(m2, StatusTarget(status) # "thinking")
    /\ calmIdles' = 0
    /\ lastResponse' = Ok200(Body("setAgentStatus", status))
    /\ hostCall' = NoCall
    /\ conns' = Remove(Reading)
    /\ UNCHANGED <<Env, Lifecycle, now, pollDue, everAccepted, quietIdles>>

\* the 'end' listener for saveAll, up to the await of the host command
EndSaveAll ==
    /\ InFlight(Reading)
    /\ conns' = Move(Reading, AwaitingHost("saveAll"))
    /\ lastResponse' = NoResponse
    /\ hostCall' = <<HostCommand("workbench.action.files.saveAll")>>
    /\ UNCHANGED <<Env, Lifecycle, MonitorVars, now, pollDue,
                   everAccepted, BurstHistory, IdleHistory>>

\* the host command resolves: onRequestActivity() and 200
CompleteOk(r) ==
    /\ InFlight(r)
    /\ r.phase = "awaiting"
    /\ LET m == onRequestActivity(Monitor, now)
       IN  /\ SetMonitor(m)
           /\ CountInBurst(m, FALSE)
    /\ calmIdles' = 0
    /\ lastResponse' = Ok200(Body(r.command, ""))
    /\ hostCall' = NoCall
    /\ conns' = Remove(r)
    /\ UNCHANGED <<Env, Lifecycle, now, pollDue, everAccepted, quietIdles>>

\* the host command rejects: the catch answers 500
CompleteFail(r) ==
    /\ InFlight(r)
    /\ r.phase = "awaiting"
    /\ lastResponse' = Err500(Body(r.command, ""), Lit("host action failed"))
    /\ hostCall' = NoCall
    /\ conns' = Remove(r)
    /\ UNCHANGED <<Env, Lifecycle, MonitorVars, now, pollDue, everAccepted,
                   BurstHistory, IdleHistory>>

\* the 'end' listener for executeCommand, up to the await of the host command
EndExecuteCommand ==
    /\ InFlight(Reading)
    /\ conns' = Move(Reading, AwaitingHost("executeCommand"))
    /\ lastResponse' = NoResponse
    /\ hostCall' = <<HostCommand("args.command")>>
    /\ UNCHANGED <<Env, Lifecycle, MonitorVars, now, pollDue,
                   everAccepted, BurstHistory, IdleHistory>>

\* the host command of executeCommand resolves with a value JSON.stringify
\* throws on (a cycle, a BigInt): onRequestActivity() and writeHead(200) have
\* run, the catch's writeHead(500) throws as the head is already written, and
\* the listener ends with nothing sent
CompleteUnserializable(r) ==
    /\ InFlight(r)
    /\ r.phase = "awaiting"
    /\ r.command = "executeCommand"
    /\ LET m == onRequestActivity(Monitor, now)
       IN  /\ SetMonitor(m)
           /\ CountInBurst(m, FALSE)
    /\ calmIdles' = 0
    /\ lastResponse' = NoResponse
    /\ hostCall' = NoCall
    /\ conns' = Move(r, Hung(r.command))
    /\ UNCHANGED <<Env, Lifecycle, now, pollDue, everAccepted, quietIdles>>

-----------------------------------------------------------------------------
(* Terminals *)

Terminal(id, name) == [id |-> id, name |-> name]

Found(t) == [ok |-> TRUE, id |-> t.id, name |-> t.name, error |-> << >>]
NotFound(message) == [ok |-> FALSE, id |-> 0, name |-> "", error |-> message]

\* a resolution that looks at the index before the name
findTerminalIndexFirst(args, ts, active) ==
    IF args.index.given THEN
        IF args.index.value < 0 \/ args.index.value >= Len(ts)
        THEN NotFound(Lit("Terminal index ") \o StringOf(args.index.value)
                        \o Lit(" out of range (0-") \o StringOf(Len(ts) - 1) \o Lit(")"))
        ELSE Found(ts[args.index.value + 1])
    ELSE IF args.name.given THEN
        IF \E i \in 1..Len(ts) : ts[i].name = args.name.value
        THEN Found(ts[CHOOSE i \in 1..Len(ts) :
                          /\ ts[i].name = args.name.value
                          /\ \A j \in 1..(i - 1) : ts[j].name # args.name.value])
        ELSE NotFound(Lit("No terminal named \"") \o Lit(args.name.value) \o Lit("\""))
    ELSE
        IF active = 0 THEN NotFound(Lit("No active terminal"))
        ELSE Found(ts[CHOOSE i \in 1..Len(ts) : ts[i].id = active])

\* findTerminal(args), given vscode.window.terminals and the id of
\* vscode.window.activeTerminal; Array.prototype.find gives the first match
findTerminal(args, ts, active) ==
    IF args.name.given THEN
        IF \E i \in 1..Len(ts) : ts[i].name = args.name.value
        THEN Found(ts[CHOOSE i \in 1..Len(ts) :
                          /\ ts[i].name = args.name.value
                          /\ \A j \in 1..(i - 1) : ts[j].name # args.name.value])
        ELSE NotFound(Lit("No terminal named \"") \o Lit(args.name.value) \o Lit("\""))
    ELSE IF args.index.given THEN
        IF args.index.value < 0 \/ args.index.value >= Len(ts)
        THEN NotFound(Lit("Terminal index ") \o StringOf(args.index.value)
                        \o Lit(" out of range (0-") \o StringOf(Len(ts) - 1) \o Lit(")"))
        ELSE Found(ts[args.index.value + 1])
    ELSE
        IF active = 0 THEN NotFound(Lit("No active terminal"))
        ELSE Found(ts[CHOOSE i \in 1..Len(ts) : ts[i].id = active])

TerminalCommands == {"sendTerminalText", "closeTerminal", "showTerminal"}

\* the method the command calls on the terminal it resolved
TerminalCall(command, id) ==
    [op |-> IF command = "sendTerminalText" THEN "sendText"
            ELSE IF command = "closeTerminal" THEN "dispose"
            ELSE "show",
     target |-> id,
     arg |-> IF command = "sendTerminalText" THEN Lit("args.text") ELSE << >>]

\* the host's list without the disposed terminal
Without(ts, id) == SelectSeq(ts, LAMBDA t : t.id # id)

\* a handler that resolved its terminal earlier, against the terminals the
\* host had then, and acts on it now
EndTerminalCommandStale(command, args) ==
    /\ InFlight(Reading)
    /\ command \in TerminalCommands
    /\ LET f == findTerminal(args, <<Terminal(1, "build"), Terminal(2, "zsh")>>, 1)
       IN  /\ hostCall' = IF f.ok THEN <<TerminalCall(command, f.id)>> ELSE NoCall
           /\ lastResponse' =
                  IF f.ok THEN Ok200(TerminalBody(command, args))
                  ELSE Err500(TerminalBody(command, args), f.error)
    /\ conns' = Remove(Reading)
    /\ UNCHANGED <<Env, Lifecycle, MonitorVars, now, pollDue, everAccepted,
                   BurstHistory, IdleHistory>>

\* a command that sends its text before it resolves the terminal: with no
\* terminal resolved the text goes to the active one
EndTerminalCommandBeforeResolve(command, args) ==
    /\ InFlight(Reading)
    /\ command \in TerminalCommands
    /\ LET f == findTerminal(args, terminals, activeTerminal)
       IN  /\ hostCall' = <<[op |-> "sendText",
                             target |-> IF f.ok THEN f.id ELSE activeTerminal,
                             arg |-> Lit("args.text")]>>
           /\ lastResponse' =
                  IF f.ok THEN Ok200(TerminalBody(command, args))
                  ELSE Err500(TerminalBody(command, args), f.error)
    /\ conns' = Remove(Reading)
    /\ UNCHANGED <<Env, Lifecycle, MonitorVars, now, pollDue, everAccepted,
                   BurstHistory, IdleHistory>>

\* the 'end' listener for sendTerminalText, closeTerminal and showTerminal:
\* nothing is awaited between findTerminal and the call on the terminal, and
\* the answer follows in the same run
EndTerminalCommand(command, args) ==
    /\ InFlight(Reading)
    /\ command \in TerminalCommands
    /\ LET f == findTerminal(args, terminals, activeTerminal)
       IN  IF f.ok
           THEN /\ hostCall' = <<TerminalCall(command, f.id)>>
                /\ terminals' =
                       IF command = "closeTerminal" THEN Without(terminals, f.id)
                       ELSE terminals
                /\ activeTerminal' =
                       IF command = "closeTerminal"
                       THEN (IF activeTerminal = f.id THEN 0 ELSE activeTerminal)
                       ELSE IF command = "showTerminal" THEN f.id
                       ELSE activeTerminal
                /\ LET m == onRequestActivity(Monitor, now)
                   IN  /\ SetMonitor(m)
                       /\ CountInBurst(m, FALSE)
                /\ calmIdles' = 0
                /\ lastResponse' = Ok200(TerminalBody(command, args))
           ELSE /\ hostCall' = NoCall
                /\ lastResponse' = Err500(TerminalBody(command, args), f.error)
                /\ UNCHANGED <<HostState, MonitorVars, BurstHistory, calmIdles>>
    /\ conns' = Remove(Reading)
    /\ UNCHANGED <<folders, ephemeral, timed, cwd, resolved, Fleet, BridgeState, Lifecycle, now,
                   pollDue, everAccepted, quietIdles>>

\* req.on('end') of such a request: the body is parsed and the handler runs
\* on the text it holds
EndBody(r) ==
    /\ InFlight(r)
    /\ r.phase = "receiving"
    /\ r.rest = << >>
    /\ LET args == TerminalArgs(NoName, NoIndex)
           f == findTerminal(args, terminals, activeTerminal)
       IN  IF f.ok
           THEN /\ hostCall' = <<[TerminalCall(r.command, f.id) EXCEPT !.arg = r.body]>>
                /\ LET m == onRequestActivity(Monitor, now)
                   IN  /\ SetMonitor(m)
                       /\ CountInBurst(m, FALSE)
                /\ calmIdles' = 0
                /\ lastResponse' = Ok200(TerminalBody(r.command, args))
           ELSE /\ hostCall' = NoCall
                /\ lastResponse' = Err500(TerminalBody(r.command, args), f.error)
                /\ UNCHANGED <<MonitorVars, BurstHistory, calmIdles>>
    /\ conns' = Remove(r)
    /\ UNCHANGED <<Env, Lifecycle, now, pollDue, everAccepted, quietIdles>>

\* the id the host gives a new terminal
FreshId(ts) == CHOOSE id \in 1..MaxTerminals :
                  /\ \A i \in 1..Len(ts) : ts[i].id # id
                  /\ \A other \in 1..(id - 1) : \E i \in 1..Len(ts) : ts[i].id = other

\* the 'end' listener for createTerminal: the terminal is created, and shown
\* unless args.show is false, with nothing awaited; its name is args.name or,
\* without one, the name the host chooses
EndCreateTerminal(name, show) ==
    /\ InFlight(Reading)
    /\ Len(terminals) < MaxTerminals
    /\ LET id == FreshId(terminals)
       IN  /\ terminals' = Append(terminals, Terminal(id, name))
           /\ activeTerminal' = IF show THEN id ELSE activeTerminal
           /\ hostCall' = <<[op |-> "createTerminal", target |-> id, arg |-> Lit(name)]>>
                              \o (IF show THEN <<[op |-> "show", target |-> id, arg |-> << >>]>>
                                  ELSE << >>)
    /\ LET m == onRequestActivity(Monitor, now)
       IN  /\ SetMonitor(m)
           /\ CountInBurst(m, FALSE)
    /\ calmIdles' = 0
    /\ lastResponse' = Ok200(Body("createTerminal", ""))
    /\ conns' = Remove(Reading)
    /\ UNCHANGED <<folders, ephemeral, timed, cwd, resolved, Fleet, BridgeState, Lifecycle, now,
                   pollDue, everAccepted, quietIdles>>

-----------------------------------------------------------------------------
(* The timer-per-call generation of the Listener: setAgentStatus arms an     *)
(* auto-hide timer instead of the Activity Monitor's polling.                *)

AUTO_HIDE_THINKING_MS == 10 * 60 * 1000
AUTO_HIDE_IDLE_MS == 3 * 60 * 1000

\* no timer handle: agentStatusTimeout is undefined
NoTimeout == 0

InitTimed ==
    timed = [agentStatusTimeout |-> NoTimeout, timers |-> {}, visible |-> FALSE,
             text |-> "", now |-> 0, calls |-> 0, waits |-> 0, status |-> "",
             fired |-> NoTimeout, cleanedUp |-> FALSE]

\* clearTimeout(handle): the timer of that handle is no longer pending; a
\* handle whose timer has fired or has been cleared changes nothing
clearTimeout(timers, handle) == {t \in timers : t.id # handle}

\* setTimeout(hide, delay): a pending timer; its handle is the number of the
\* call that arms it
setTimeout(t, delay) == [id |-> t.calls + 1, due |-> t.now + delay]

NotTimed ==
    <<folders, ephemeral, fs, server, port, portFilePath, agentStatusItem,
      flashInterval, flashOn, lastRequestTime, activityPollInterval,
      currentStatus, now, pollDue, conns, lastResponse, cwd, resolved,
      everAccepted, lastAccept, burstEnters, burstStartedThinking,
      burstOverride, quietIdles, calmIdles, cleanedUp, hostCall, peer,
      terminals, activeTerminal, BridgeState>>

\* case 'setAgentStatus' with the timers `kept` pending after its first line
SetAgentStatusWith(s, kept) ==
    /\ timed.calls < MaxStatusCalls
    /\ timed' =
          IF s = "thinking"
          THEN [timed EXCEPT !.text = "$(loading~spin)", !.visible = TRUE,
                             !.timers = kept \cup {setTimeout(timed, AUTO_HIDE_THINKING_MS)},
                             !.agentStatusTimeout = timed.calls + 1,
                             !.calls = @ + 1, !.status = s, !.fired = NoTimeout]
          ELSE IF s = "idle"
          THEN [timed EXCEPT !.text = "$(circle-filled)", !.visible = TRUE,
                             !.timers = kept \cup {setTimeout(timed, AUTO_HIDE_IDLE_MS)},
                             !.agentStatusTimeout = timed.calls + 1,
                             !.calls = @ + 1, !.status = s, !.fired = NoTimeout]
          ELSE [timed EXCEPT !.visible = FALSE, !.timers = kept,
                             !.calls = @ + 1, !.status = s, !.fired = NoTimeout]
    /\ UNCHANGED NotTimed

\* a setAgentStatus that leaves the pending timer alone
TimedSetAgentStatusKeepsTimer(s) == SetAgentStatusWith(s, timed.timers)

\* case 'setAgentStatus': the pending timer is cleared first
TimedSetAgentStatus(s) ==
    SetAgentStatusWith(s, clearTimeout(timed.timers, timed.agentStatusTimeout))

\* a pending timer is due: agentStatusItem.hide()
TimerFires(t) ==
    /\ t \in timed.timers
    /\ t.due <= timed.now
    /\ timed' = [timed EXCEPT !.visible = FALSE, !.timers = @ \ {t}, !.fired = t.id]
    /\ UNCHANGED NotTimed

\* time passes, up to the next timer that is due
TimedWait ==
    /\ timed.waits < MaxWaits
    /\ \A t \in timed.timers : t.due > timed.now
    /\ LET next == timed.now + AUTO_HIDE_IDLE_MS
           due == {t.due : t \in timed.timers}
       IN  timed' = [timed EXCEPT
                       !.now = IF \E d \in due : d < next
                               THEN CHOOSE d \in due : \A e \in due : d <= e
                               ELSE next,
                       !.waits = @ + 1, !.fired = NoTimeout]
    /\ UNCHANGED NotTimed

\* cleanup(): the pending timer is cleared; requests already accepted are
\* still served
TimedCleanup ==
    /\ ~timed.cleanedUp
    /\ timed' = [timed EXCEPT
                    !.timers = clearTimeout(@, timed.agentStatusTimeout),
                    !.cleanedUp = TRUE, !.fired = NoTimeout]
    /\ UNCHANGED NotTimed

-----------------------------------------------------------------------------
(* Timers *)

\* one poll period passes; a burst is over when the idle threshold has passed
\* since its last request.  The clock is followed while the poll timer is
\* armed: after cleanup() no code compares times any more.
Tick ==
    /\ activityPollInterval
    /\ now < MaxNow
    /\ ~pollDue
    /\ now' = now + POLL_MS
    /\ pollDue' = activityPollInterval
    /\ IF InBurst /\ now + POLL_MS - lastAccept >= IDLE_AFTER_MS
       THEN /\ lastAccept' = 0
            /\ burstEnters' = 0
            /\ burstStartedThinking' = FALSE
            /\ burstOverride' = FALSE
       ELSE UNCHANGED BurstHistory
    /\ lastResponse' = NoResponse
    /\ hostCall' = NoCall
    /\ UNCHANGED <<Env, Lifecycle, MonitorVars, conns, everAccepted,
                   IdleHistory>>

\* the callback of the poll timer
PollTick ==
    /\ activityPollInterval
    /\ pollDue
    /\ pollDue' = FALSE
    /\ LET m == PollCallback(Monitor, now)
       IN  /\ SetMonitor(m)
           /\ quietIdles' = quietIdles + EnterIdleEffects(m)
           /\ calmIdles' = calmIdles + EnterIdleEffects(m)
    /\ lastResponse' = NoResponse
    /\ hostCall' = NoCall
    /\ UNCHANGED <<Env, Lifecycle, now, conns, everAccepted, BurstHistory>>

\* the callback of the flash timer
FlashTick ==
    /\ flashInterval
    /\ SetMonitor(FlashToggle(Monitor))
    /\ lastResponse' = NoResponse
    /\ hostCall' = NoCall
    /\ UNCHANGED <<Env, Lifecycle, now, pollDue, conns, everAccepted,
                   BurstHistory, IdleHistory>>

-----------------------------------------------------------------------------
(* Bridge: the resolve step *)

BridgeGetPort ==
    /\ resolved' = getPort(fs, cwd)
    /\ lastResponse' = NoResponse
    /\ hostCall' = NoCall
    /\ UNCHANGED <<folders, ephemeral, timed, cwd, Fleet, HostState, BridgeState, Lifecycle,
                   MonitorVars, now, pollDue, conns, everAccepted, BurstHistory,
                   IdleHistory>>

-----------------------------------------------------------------------------
(* Bridge: the tool-call handler.  A handler runs without interruption up   *)
(* to its next await of the network; the operators below carry a record b   *)
(* of the Bridge's variables and of the handler's own through such a run.   *)
(* A getPort() that throws inside an async function settles within the      *)
(* same run.                                                                *)

\* TOOLS: the tool names and the command each handler passes to sendCommand
TOOLS ==
    << [name |-> "save_all_files", command |-> "saveAll"],
       [name |-> "close_all_editors", command |-> "closeAllEditors"],
       [name |-> "close_active_editor", command |-> "closeActiveEditor"],
       [name |-> "open_file", command |-> "openFile"],
       [name |-> "get_open_files", command |-> "getOpenFiles"],
       [name |-> "show_message", command |-> "showMessage"],
       [name |-> "execute_command", command |-> "executeCommand"],
       [name |-> "list_terminals", command |-> "listTerminals"],
       [name |-> "create_terminal", command |-> "createTerminal"],
       [name |-> "send_terminal_text", command |-> "sendTerminalText"],
       [name |-> "show_terminal", command |-> "showTerminal"],
       [name |-> "close_terminal", command |-> "closeTerminal"] >>

ToolNames == {TOOLS[i].name : i \in 1..Len(TOOLS)}

\* a lookup that falls back to the first tool
FindToolOrFirst(name) ==
    IF name \in ToolNames
    THEN CHOOSE i \in 1..Len(TOOLS) :
            TOOLS[i].name = name /\ \A j \in 1..(i - 1) : TOOLS[j].name # name
    ELSE 1

\* TOOLS.find((t) => t.name === name): 0 stands for undefined
FindTool(name) ==
    IF name \in ToolNames
    THEN CHOOSE i \in 1..Len(TOOLS) :
            TOOLS[i].name = name /\ \A j \in 1..(i - 1) : TOOLS[j].name # name
    ELSE 0

\* the message of the Error getPort throws
NotRunningMessage(dir) ==
    Lit("Cursor Commander extension is ") \o Lit("not running") \o Lit(" for workspace ")
        \o dir \o Lit(". ") \o Lit("Install the .vsix and restart Cursor.")

\* the handler has no result yet
NoResult == [returned |-> FALSE, isError |-> FALSE, text |-> << >>]

\* the step returned no tool result
NothingReturned == [tool |-> "", sent |-> 0, result |-> NoResult]

ToolResult(isError, text) == [returned |-> TRUE, isError |-> isError, text |-> text]

\* the handler's catch: { content: [{ type: 'text', text: `Error: ${err.message}` }], isError: true }
ErrorResult(message) == ToolResult(TRUE, Lit("Error: ") \o message)

UnknownToolResult(name) == ToolResult(TRUE, Lit("Unknown tool: ") \o Lit(name))

\* a stringification with no case for an empty result
StringifyNoEmpty(answer) ==
    IF answer.kind = "string" THEN answer.text
    ELSE Lit("JSON:") \o answer.text

\* result == null ? 'OK' : typeof result === 'string' ? result : JSON.stringify(result, null, 2)
Stringify(answer) ==
    IF answer.kind = "null" THEN Lit("OK")
    ELSE IF answer.kind = "string" THEN answer.text
    ELSE Lit("JSON:") \o answer.text

\* `http://127.0.0.1:${port}` is a URL fetch takes iff port is a port number
ValidPort(r) == r.kind = "int" /\ r.value \in 0..65535

\* a Listener is listening on port p
Live(p) ==
    \/ server = "listening" /\ port = p
    \/ peer.server = "listening" /\ peer.port = p

\* the run read no response to a command
NoAnswer == [success |-> FALSE, kind |-> "none", text |-> << >>]

\* the handler of a tool call that has just arrived
NewCall(name) ==
    [active |-> activeToolCalls, pings |-> pings, commands |-> << >>, answer |-> NoAnswer,
     pc |-> "entry", tool |-> name, to |-> 0, sent |-> 0, result |-> NoResult]

\* the handler in flight c, resumed
Resume(c) ==
    [active |-> activeToolCalls, pings |-> pings, commands |-> << >>, answer |-> NoAnswer,
     pc |-> c.pc, tool |-> c.tool, to |-> c.to, sent |-> c.sent, result |-> c.result]

\* sendStatusUpdate(status): the ping goes out and the handler awaits it at
\* pc `awaiting`, or getPort/fetch throw at once, the catch swallows it and the
\* handler goes on (pc unchanged)
sendStatusUpdate(b, status, awaiting) ==
    LET r == getPort(fs, cwd)
    IN  IF ValidPort(r)
        THEN [b EXCEPT !.pings = Append(@, [status |-> status, sent |-> TRUE]),
                       !.pc = awaiting,
                       !.to = r.value]
        ELSE [b EXCEPT !.pings = Append(@, [status |-> status, sent |-> FALSE])]


\* mutant: the idle ping is sent at the end of every call
RunFinallyAlwaysIdle(b, result) ==
    sendStatusUpdate([b EXCEPT !.active = @ - 1, !.result = result, !.pc = "return",
                               !.to = 0],
                     "idle", "pingIdle")

\* the finally block, then the return of the result
RunFinally(b, result) ==
    LET b1 == [b EXCEPT !.active = @ - 1, !.result = result, !.pc = "return", !.to = 0]
    IN  IF b1.active = 0 THEN sendStatusUpdate(b1, "idle", "pingIdle") ELSE b1

\* a sendCommand that sends its request twice
RunBodyResend(b) ==
    LET i == FindTool(b.tool)
        r == getPort(fs, cwd)
    IN  IF i = 0 THEN RunFinally(b, UnknownToolResult(b.tool))
        ELSE IF r = DiscoveryMiss THEN RunFinally(b, ErrorResult(NotRunningMessage(cwd)))
        ELSE IF ~ValidPort(r) THEN RunFinally(b, ErrorResult(Lit("Failed to parse URL")))
        ELSE [b EXCEPT !.pc = "command",
                       !.to = r.value,
                       !.sent = @ + 2,
                       !.commands = @ \o <<[command |-> TOOLS[i].command, to |-> r.value],
                                           [command |-> TOOLS[i].command, to |-> r.value]>>]

\* the try block up to the await of the command's response: the tool lookup,
\* and sendCommand up to its fetch
RunBody(b) ==
    LET i == FindTool(b.tool)
        r == getPort(fs, cwd)
    IN  IF i = 0 THEN RunFinally(b, UnknownToolResult(b.tool))
        ELSE IF r = DiscoveryMiss THEN RunFinally(b, ErrorResult(NotRunningMessage(cwd)))
        ELSE IF ~ValidPort(r) THEN RunFinally(b, ErrorResult(Lit("Failed to parse URL")))
        ELSE [b EXCEPT !.pc = "command",
                       !.to = r.value,
                       !.sent = @ + 1,
                       !.commands = Append(@, [command |-> TOOLS[i].command, to |-> r.value])]

\* activeToolCalls++; if (activeToolCalls === 1) { await sendStatusUpdate('thinking'); }
RunEntry(b) ==
    LET b1 == [b EXCEPT !.active = @ + 1]
        b2 == IF b1.active = 1 THEN sendStatusUpdate(b1, "thinking", "pingThinking") ELSE b1
    IN  IF b2.pc = "pingThinking" THEN b2 ELSE RunBody(b2)

InFlightCall(b) ==
    [pc |-> b.pc, tool |-> b.tool, to |-> b.to, sent |-> b.sent, result |-> b.result]

\* the Bridge's variables after the run that ends in b, of a handler that was
\* in flight as `before` (EmptyBag for a new one)
SetBridge(b, before) ==
    /\ activeToolCalls' = b.active
    /\ pings' = b.pings
    /\ commandsSent' = b.commands
    /\ lastAnswer' = b.answer
    /\ arrived' = arrived (-) before
    /\ lastPing' = lastPing
    /\ IF b.pc = "return"
       THEN /\ toolCalls' = toolCalls (-) before
            /\ lastResult' = [tool |-> b.tool, sent |-> b.sent, result |-> b.result]
       ELSE /\ toolCalls' = (toolCalls (-) before) (+) SetToBag({InFlightCall(b)})
            /\ lastResult' = NothingReturned

ListenerVars ==
    <<folders, ephemeral, timed, Fleet, HostState, Lifecycle, MonitorVars, now, pollDue, conns,
      everAccepted, BurstHistory, IdleHistory>>

\* a CallToolRequest arrives
CallTool(name) ==
    /\ started < MaxCalls
    /\ started' = started + 1
    /\ SetBridge(RunEntry(NewCall(name)), EmptyBag)
    /\ lastResponse' = NoResponse
    /\ hostCall' = NoCall
    /\ UNCHANGED <<ListenerVars, cwd, resolved>>

\* a ping that is sent again when its connection was refused
ThinkingPingSettlesWithRetry(c) ==
    /\ BagIn(c, toolCalls)
    /\ c.pc = "pingThinking"
    /\ LET again == sendStatusUpdate([Resume(c) EXCEPT !.pc = "entry"],
                                     "thinking", "pingThinking")
       IN  SetBridge(IF Live(c.to) THEN RunBody(Resume(c))
                     ELSE IF again.pc = "pingThinking" THEN again
                     ELSE RunBody(again),
                     SetToBag({c}))
    /\ lastResponse' = NoResponse
    /\ hostCall' = NoCall
    /\ UNCHANGED <<ListenerVars, cwd, resolved, started>>

\* the fetch of the thinking ping settles, with a response or a rejection:
\* sendStatusUpdate returns either way
ThinkingPingSettles(c) ==
    /\ BagIn(c, toolCalls)
    /\ c.pc = "pingThinking"
    /\ SetBridge(RunBody(Resume(c)), SetToBag({c}))
    /\ lastResponse' = NoResponse
    /\ hostCall' = NoCall
    /\ UNCHANGED <<ListenerVars, cwd, resolved, started>>

\* the Listener answers the command: data.success decides between the result
\* and `throw new Error(data.error)`
CommandAnswered(c, answer) ==
    /\ BagIn(c, toolCalls)
    /\ c.pc = "command"
    /\ Live(c.to)
    /\ SetBridge(RunFinally([Resume(c) EXCEPT !.answer = answer],
                            IF answer.success THEN ToolResult(FALSE, Stringify(answer))
                            ELSE ErrorResult(answer.text)),
                 SetToBag({c}))
    /\ lastResponse' = NoResponse
    /\ hostCall' = NoCall
    /\ UNCHANGED <<ListenerVars, cwd, resolved, started>>

\* nothing listens on the port: fetch rejects
CommandRefused(c) ==
    /\ BagIn(c, toolCalls)
    /\ c.pc = "command"
    /\ ~Live(c.to)
    /\ SetBridge(RunFinally(Resume(c), ErrorResult(Lit("fetch failed"))), SetToBag({c}))
    /\ lastResponse' = NoResponse
    /\ hostCall' = NoCall
    /\ UNCHANGED <<ListenerVars, cwd, resolved, started>>

\* the fetch of the idle ping settles: the handler returns its result
IdlePingSettles(c) ==
    /\ BagIn(c, toolCalls)
    /\ c.pc = "pingIdle"
    /\ SetBridge([Resume(c) EXCEPT !.pc = "return"], SetToBag({c}))
    /\ lastResponse' = NoResponse
    /\ hostCall' = NoCall
    /\ UNCHANGED <<ListenerVars, cwd, resolved, started>>

\* a request of the Bridge is on its own connection from the fetch that sends
\* it to the response that settles it; in between it reaches the Listener
OnItsWay(c) == CopiesIn(c, arrived) < CopiesIn(c, toolCalls)

\* the ping a handler awaits reaches the Listener
PingArrives(c) ==
    /\ BagIn(c, toolCalls)
    /\ c.pc \in {"pingThinking", "pingIdle"}
    /\ OnItsWay(c)
    /\ Live(c.to)
    /\ arrived' = arrived (+) SetToBag({c})
    /\ lastPing' = IF c.pc = "pingThinking" THEN "thinking" ELSE "idle"
    /\ lastResponse' = NoResponse
    /\ hostCall' = NoCall
    /\ UNCHANGED <<ListenerVars, cwd, resolved, activeToolCalls, toolCalls, started, pings,
                   commandsSent, lastResult, lastAnswer>>

\* the command a handler awaits reaches the Listener
CommandArrives(c) ==
    /\ BagIn(c, toolCalls)
    /\ c.pc = "command"
    /\ OnItsWay(c)
    /\ Live(c.to)
    /\ arrived' = arrived (+) SetToBag({c})
    /\ lastPing' = lastPing
    /\ lastResponse' = NoResponse
    /\ hostCall' = NoCall
    /\ UNCHANGED <<ListenerVars, cwd, resolved, activeToolCalls, toolCalls, started, pings,
                   commandsSent, lastResult, lastAnswer>>

\* a response comes after the request has arrived
Responds(c) == BagIn(c, arrived)

-----------------------------------------------------------------------------
(* Specifications *)

Path_ab == <<"/", "a", "/", "b">>
Path_c == <<"/", "c">>
Path_root == <<"/">>

NotResolved == [kind |-> "none", value |-> 0]

InitListener ==
    /\ server = "none"
    /\ port = 0
    /\ portFilePath = Undefined
    /\ agentStatusItem = NewStatusBarItem
    /\ flashInterval = FALSE
    /\ flashOn = TRUE
    /\ lastRequestTime = 0
    /\ activityPollInterval = FALSE
    /\ currentStatus = "hidden"
    /\ now = StartTime
    /\ pollDue = FALSE
    /\ conns = EmptyBag
    /\ lastResponse = NoResponse
    /\ resolved = NotResolved
    /\ cleanedUp = FALSE
    /\ hostCall = NoCall
    /\ everAccepted = FALSE
    /\ lastAccept = 0
    /\ burstEnters = 0
    /\ burstStartedThinking = FALSE
    /\ burstOverride = FALSE
    /\ quietIdles = 0
    /\ calmIdles = 0

\* a Listener of the same code in another host process, not activated yet
NewListener(fl) == [folders |-> fl, server |-> "none", port |-> 0, portFilePath |-> Undefined]

InitPeer(fl) == peer = NewListener(fl)

InitHost(ts, a) == terminals = ts /\ activeTerminal = a

\* the Bridge after its module has loaded: `let activeToolCalls = 0`
InitBridge ==
    /\ activeToolCalls = 0
    /\ toolCalls = EmptyBag
    /\ started = 0
    /\ pings = << >>
    /\ commandsSent = << >>
    /\ lastResult = NothingReturned
    /\ lastAnswer = NoAnswer
    /\ arrived = EmptyBag
    /\ lastPing = "none"

\* the Listener and its Activity Monitor, one workspace, an empty store
Init ==
    /\ InitListener
    /\ InitPeer(<< >>)
    /\ InitHost(<< >>, 0)
    /\ InitBridge
    /\ InitTimed
    /\ folders = <<Path_ab>>
    /\ ephemeral = {54321}
    /\ fs = << >>
    /\ cwd = Path_ab

Next ==
    \/ Activate
    \/ ListenCallback
    \/ Cleanup
    \/ RejectNonPost
    \/ Accept
    \/ EndMalformed
    \/ \E x \in {"saveAll", "frobnicate"} : EndUnknown(x)
    \/ \E s \in {"thinking", "idle", "off"} : EndSetAgentStatus(s)
    \/ EndSaveAll
    \/ \E r \in BagToSet(conns) : CompleteOk(r)
    \/ \E r \in BagToSet(conns) : CompleteFail(r)
    \/ Tick
    \/ PollTick
    \/ FlashTick

Spec == Init /\ [][Next]_vars

\* the timers of a live process fire and its clock advances
LiveSpec == Spec /\ WF_vars(Tick) /\ WF_vars(PollTick)

-----------------------------------------------------------------------------
(* The Discovery Store with one Listener and one Bridge: any workspace, any *)
(* records left in the store, the Listener's lifecycle, the Bridge's        *)
(* resolve.                                                                 *)

Key_ab == sanitizeWorkspacePath(Path_ab)

SampleContents ==
    { <<"8", "0", "8", "0">>,        \* a port
      <<"7", "0", "\n">>,            \* a port and a line end
      << >>,                         \* an empty file
      <<"a", "b", "c">> }            \* no number

SamplePaths == {PortsFile(Key_ab), PortsFile(DEFAULT_KEY), LEGACY_PORT_FILE}

InitialStores ==
    UNION { [present -> SampleContents] : present \in SUBSET SamplePaths }

DiscoveryInit ==
    /\ InitListener
    /\ InitPeer(<< >>)
    /\ InitHost(<< >>, 0)
    /\ InitBridge
    /\ InitTimed
    /\ folders \in {<< >>, <<Path_ab>>, <<Path_root>>, <<Path_c, Path_ab>>}
    /\ ephemeral = {54321, 8000}
    /\ fs \in InitialStores
    /\ cwd \in {Path_ab, Path_c}

DiscoveryNext ==
    \/ Activate
    \/ ListenCallback
    \/ Cleanup
    \/ BridgeGetPort

DiscoverySpec == DiscoveryInit /\ [][DiscoveryNext]_vars

-----------------------------------------------------------------------------
(* Two Listeners on one Discovery Store: any two host windows, with the    *)
(* same workspace, with different ones, with roots that sanitize alike, or *)
(* with none.                                                               *)

Path_a_b == <<"/", "a", "-", "b">>

FleetInit ==
    /\ InitListener
    /\ folders \in {<< >>, <<Path_ab>>}
    /\ \E fl \in {<< >>, <<Path_ab>>, <<Path_a_b>>, <<Path_c>>} : InitPeer(fl)
    /\ InitHost(<< >>, 0)
    /\ InitBridge
    /\ InitTimed
    /\ ephemeral = {54321, 8000}
    /\ fs = << >>
    /\ cwd = Path_ab

FleetNext ==
    \/ Activate
    \/ ListenCallback
    \/ Cleanup
    \/ PeerActivate
    \/ PeerListenCallback
    \/ PeerCleanup
    \/ BridgeGetPort

FleetSpec == FleetInit /\ [][FleetNext]_vars

-----------------------------------------------------------------------------
(* One Bridge and one Listener: tool calls of any tool in any interleaving, *)
(* a store with or without records, fresh or stale, and the Listener's      *)
(* lifecycle.                                                               *)

\* what a Listener answers to a command: a text result, an empty result, a
\* structured result, a failure
ListenerAnswers ==
    { [success |-> TRUE, kind |-> "string", text |-> Lit("All files saved")],
      [success |-> TRUE, kind |-> "null", text |-> << >>],
      [success |-> TRUE, kind |-> "json", text |-> Lit("[]")],
      [success |-> FALSE, kind |-> "string", text |-> Lit("No active terminal")] }

\* an empty store, and stores with one record left behind: a port nobody
\* listens on under the identity, under the sentinel or at the legacy path,
\* and a record that holds no number
BridgeStores ==
    { << >> }
      \cup { WriteFile(<< >>, path, <<"8", "0", "8", "0">>) : path \in SamplePaths }
      \cup { WriteFile(<< >>, PortsFile(Key_ab), <<"a", "b", "c">>) }

SampleTools == {"save_all_files", "send_terminal_text", "no_such_tool"}

BridgeInit ==
    /\ InitListener
    /\ InitPeer(<< >>)
    /\ InitHost(<< >>, 0)
    /\ InitBridge
    /\ InitTimed
    /\ folders = <<Path_ab>>
    /\ ephemeral = {54321}
    /\ fs \in BridgeStores
    /\ cwd = Path_ab

BridgeNext ==
    \/ Activate
    \/ ListenCallback
    \/ Cleanup
    \/ \E name \in SampleTools : CallTool(name)
    \/ \E c \in BagToSet(toolCalls) : ThinkingPingSettles(c)
    \/ \E c \in BagToSet(toolCalls), answer \in ListenerAnswers : CommandAnswered(c, answer)
    \/ \E c \in BagToSet(toolCalls) : CommandRefused(c)
    \/ \E c \in BagToSet(toolCalls) : IdlePingSettles(c)

BridgeSpec == BridgeInit /\ [][BridgeNext]_vars

-----------------------------------------------------------------------------
(* Sanitization: a Listener and a Bridge, each in any workspace whose path  *)
(* is a short text over separators, the substitute character and a letter,  *)
(* or the path of a folder named like the sentinel.                         *)

MaxLen == 3

PathAlphabet == {"/", "-", "a"}

Path_default == <<"/">> \o DEFAULT_KEY

SampleWorkspaces ==
    UNION {[1..k -> PathAlphabet] : k \in 1..MaxLen} \cup {Path_default}

SanitizeInit ==
    /\ InitListener
    /\ InitPeer(<< >>)
    /\ InitHost(<< >>, 0)
    /\ InitBridge
    /\ InitTimed
    /\ folders \in {<< >>} \cup {<<p>> : p \in SampleWorkspaces}
    /\ ephemeral = {54321}
    /\ fs = << >>
    /\ cwd \in SampleWorkspaces

SanitizeNext ==
    \/ Activate
    \/ ListenCallback
    \/ Cleanup
    \/ BridgeGetPort

SanitizeSpec == SanitizeInit /\ [][SanitizeNext]_vars

-----------------------------------------------------------------------------
(* Isolation: a Bridge and a Listener in the same workspace, a second       *)
(* Listener in another window, records left behind in the store.            *)

IsolationStores ==
    { << >>,
      WriteFile(WriteFile(<< >>, PortsFile(DEFAULT_KEY), <<"8", "0", "8", "0">>),
                LEGACY_PORT_FILE, <<"8", "0", "8", "0">>) }

IsolationInit ==
    /\ InitListener
    /\ folders \in {<<Path_ab>>, <<Path_default>>}
    /\ cwd = folders[1]
    /\ \E fl \in {<< >>, <<Path_c>>, <<Path_a_b>>} : InitPeer(fl)
    /\ InitHost(<< >>, 0)
    /\ InitBridge
    /\ InitTimed
    /\ ephemeral = {54321, 8000}
    /\ fs \in IsolationStores

IsolationNext ==
    \/ Activate
    \/ ListenCallback
    \/ Cleanup
    \/ PeerActivate
    \/ PeerListenCallback
    \/ PeerCleanup
    \/ CallTool("save_all_files")
    \/ \E c \in BagToSet(toolCalls) : ThinkingPingSettles(c)
    \/ \E c \in BagToSet(toolCalls) :
          CommandAnswered(c, [success |-> TRUE, kind |-> "string",
                              text |-> Lit("All files saved")])
    \/ \E c \in BagToSet(toolCalls) : CommandRefused(c)
    \/ \E c \in BagToSet(toolCalls) : IdlePingSettles(c)

IsolationSpec == IsolationInit /\ [][IsolationNext]_vars

-----------------------------------------------------------------------------
(* The Listener's dispatch: requests of every kind of body, on a host with  *)
(* any of a few sets of terminals.  The clock stands still.                 *)

SampleTerminals ==
    { << >>,
      <<Terminal(1, "build")>>,
      <<Terminal(1, "build"), Terminal(2, "zsh")>>,
      <<Terminal(1, "zsh"), Terminal(2, "build"), Terminal(3, "zsh")>> }

SampleTargets ==
    { TerminalArgs(n, i) :
        n \in {NoName, Name("build"), Name("zsh"), Name("fish")},
        i \in {NoIndex, Index(0 - 1), Index(0), Index(1), Index(2), Index(5)} }

DispatchInit ==
    /\ InitListener
    /\ InitPeer(<< >>)
    /\ InitBridge
    /\ InitTimed
    /\ \E ts \in SampleTerminals :
          \E a \in {0} \cup {ts[i].id : i \in 1..Len(ts)} : InitHost(ts, a)
    /\ folders = <<Path_ab>>
    /\ ephemeral = {54321}
    /\ fs = << >>
    /\ cwd = Path_ab

DispatchNext ==
    \/ Activate
    \/ ListenCallback
    \/ RejectNonPost
    \/ Accept
    \/ EndMalformed
    \/ \E x \in CommandNames : EndUnknown(x)
    \/ \E s \in {"thinking", "idle", "off"} : EndSetAgentStatus(s)
    \/ EndSaveAll
    \/ EndExecuteCommand
    \/ \E c \in TerminalCommands, a \in SampleTargets : EndTerminalCommand(c, a)
    \/ \E r \in BagToSet(conns) : CompleteOk(r)
    \/ \E r \in BagToSet(conns) : CompleteFail(r)
    \/ \E r \in BagToSet(conns) : CompleteUnserializable(r)

DispatchSpec == DispatchInit /\ [][DispatchNext]_vars

-----------------------------------------------------------------------------
(* Concurrent requests on the host's terminals: several connections in      *)
(* flight, terminals created and closed between the requests of the others. *)

TerminalInit == DispatchInit

TerminalNext ==
    \/ Activate
    \/ ListenCallback
    \/ Accept
    \/ \E c \in TerminalCommands, a \in SampleTargets : EndTerminalCommand(c, a)
    \/ \E n \in {"build", "zsh"}, show \in BOOLEAN : EndCreateTerminal(n, show)

TerminalSpec == TerminalInit /\ [][TerminalNext]_vars

-----------------------------------------------------------------------------
(* Request bodies that arrive in chunks. *)

SampleTexts == {<<"a">>, <<"C3", "A9">>, <<"a", "C3", "A9">>}

BodyInit == DispatchInit

BodyNext ==
    \/ Activate
    \/ ListenCallback
    \/ \E sent \in SampleTexts : AcceptAs(Receiving(sent, sent, << >>))
    \/ \E r \in BagToSet(conns) : \E k \in 1..2 : DataChunk(r, k)
    \/ \E r \in BagToSet(conns) : EndBody(r)

BodySpec == BodyInit /\ [][BodyNext]_vars

-----------------------------------------------------------------------------
(* The requests of one Bridge on their way to a Listener that stays up: each *)
(* fetch has a connection of its own, and the requests of handlers that run  *)
(* at once reach the Listener in any order.                                   *)

DeliveryInit ==
    /\ InitListener
    /\ InitPeer(<< >>)
    /\ InitHost(<< >>, 0)
    /\ InitBridge
    /\ InitTimed
    /\ folders = <<Path_ab>>
    /\ ephemeral = {54321}
    /\ fs = << >>
    /\ cwd = Path_ab

DeliveryNext ==
    \/ Activate
    \/ ListenCallback
    \/ CallTool("save_all_files")
    \/ \E c \in BagToSet(toolCalls) : PingArrives(c)
    \/ \E c \in BagToSet(toolCalls) : CommandArrives(c)
    \/ \E c \in BagToSet(toolCalls) : Responds(c) /\ ThinkingPingSettles(c)
    \/ \E c \in BagToSet(toolCalls), answer \in ListenerAnswers :
          Responds(c) /\ CommandAnswered(c, answer)
    \/ \E c \in BagToSet(toolCalls) : Responds(c) /\ IdlePingSettles(c)

DeliverySpec == DeliveryInit /\ [][DeliveryNext]_vars

-----------------------------------------------------------------------------
(* The timer-per-call generation: status calls of any kind at any time.      *)

TimedNext ==
    \/ \E s \in {"thinking", "idle", "off"} : TimedSetAgentStatus(s)
    \/ \E t \in timed.timers : TimerFires(t)
    \/ TimedWait
    \/ TimedCleanup

TimedSpec == Init /\ [][TimedNext]_vars

-----------------------------------------------------------------------------
(* Claims *)

IsSetAgentStatusOk(r) == r.status = 200 /\ r.command = "setAgentStatus"

\* C1: once the 200 response of a setAgentStatus request with status s has
\* been written, the presence state is the requested one (thinking for
\* "thinking", idle for "idle", hidden for anything else).
C1_ExplicitOverride ==
    IsSetAgentStatusOk(lastResponse) => currentStatus = StatusTarget(lastResponse.arg)

\* C2 as stated: throughout a burst of accepted requests of any commands, each
\* less than the idle threshold after the one before, the enter-thinking side
\* effects have been performed exactly once and the state is thinking.
C2_BurstDedupAnyCommand ==
    InBurst => (burstEnters = 1 /\ currentStatus = "thinking")

\* C2 amended: throughout a burst in which no setAgentStatus with a status
\* other than "thinking" is handled, the state is thinking and the
\* enter-thinking side effects have been performed at most once: once, at the
\* first request, if the state was not thinking before it, and not at all if
\* it was.
C2_BurstDedup ==
    (InBurst /\ ~burstOverride) =>
        /\ currentStatus = "thinking"
        /\ burstEnters = IF burstStartedThinking THEN 0 ELSE 1

\* a burst of two requests in flight together, later than its first request
C2_Witness ==
    /\ InBurst /\ ~burstOverride /\ ~burstStartedThinking
    /\ burstEnters = 1
    /\ BagCardinality(conns) = 2
    /\ now > lastRequestTime

NoneReading == ~InFlight(Reading)
Awaiting == BagCardinality(conns)

\* the clock has room for the idle threshold after the last completion
RoomToIdle == now + IDLE_AFTER_MS * (1 + Awaiting) <= MaxNow

Quiet == currentStatus = "thinking" /\ activityPollInterval /\ NoneReading /\ RoomToIdle

\* if the Listener stays active, the state is thinking and no further request
\* arrives, the poll moves the state to idle
IdleLiveness ==
    Quiet ~> (currentStatus = "idle" \/ ~activityPollInterval \/ ~NoneReading)

AcceptStep == CopiesIn(Reading, conns') > CopiesIn(Reading, conns)

\* C4: the step that accepts a POST request sets the last-activity timestamp
\* to the current time and leaves the state thinking (the body and the
\* command are not known yet).
C4_AcceptRecordsActivity ==
    [][AcceptStep => (lastRequestTime' = now /\ currentStatus' = "thinking")]_vars

\* a request accepted when the state was idle
C4_Witness ==
    /\ InFlight(Reading)
    /\ lastRequestTime = now
    /\ currentStatus = "thinking"
    /\ quietIdles = 0 /\ calmIdles = 0
    /\ now >= StartTime + IDLE_AFTER_MS
    /\ InBurst /\ ~burstStartedThinking /\ burstEnters = 1

PollStep == pollDue /\ ~pollDue' /\ activityPollInterval'

\* C5: a run of the poll's callback changes the state iff the state is
\* thinking and now - lastRequestTime >= the threshold, and then to idle (flash
\* timer disarmed, steady glyph shown); otherwise it leaves state, flash
\* timer and indicator as they are.
C5_PollTick ==
    [][PollStep =>
        IF currentStatus = "thinking" /\ now - lastRequestTime >= IDLE_AFTER_MS
        THEN /\ currentStatus' = "idle"
             /\ ~flashInterval'
             /\ agentStatusItem'.visible
             /\ agentStatusItem'.text = "$(circle-filled)"
        ELSE UNCHANGED <<currentStatus, flashInterval, flashOn, agentStatusItem>>]_vars

\* the poll has just moved the state to idle, exactly at the threshold
C5_Witness ==
    /\ currentStatus = "idle"
    /\ activityPollInterval /\ ~pollDue
    /\ now - lastRequestTime = IDLE_AFTER_MS
    /\ ~flashInterval

Silent(m) == [m EXCEPT !.calls = << >>]

\* C6: the transition to the current state changes nothing and performs no
\* host call, and the transition to any target, applied a second time, changes
\* nothing and performs no host call.
C6_Dedup ==
    /\ setAgentStatusDisplay(currentStatus, Monitor) = Monitor
    /\ \A s \in Statuses :
          LET once == Silent(setAgentStatusDisplay(s, Monitor))
          IN  setAgentStatusDisplay(s, once) = once

\* an explicit override to thinking has been handled while the state was
\* thinking and the glyph was in its outline phase
C6_Witness ==
    /\ IsSetAgentStatusOk(lastResponse) /\ lastResponse.arg = "thinking"
    /\ currentStatus = "thinking"
    /\ ~flashOn
    /\ burstEnters = 1

\* C7: the flash timer is armed iff the state is thinking; idle shows the
\* steady glyph; hidden hides the indicator.
C7_FlashTracksState ==
    /\ flashInterval <=> currentStatus = "thinking"
    /\ currentStatus = "idle" =>
          agentStatusItem.visible /\ agentStatusItem.text = "$(circle-filled)"
    /\ currentStatus = "hidden" => ~agentStatusItem.visible

\* C8: until the first accepted request the state is hidden.
C8_HiddenUntilFirstRequest ==
    ~everAccepted => currentStatus = "hidden"

\* no request accepted yet, the poll has run past the threshold and a non-POST
\* request has just been rejected
C8_Witness ==
    /\ ~everAccepted
    /\ lastResponse = Rejected405
    /\ activityPollInterval /\ ~pollDue
    /\ now >= StartTime + IDLE_AFTER_MS
    /\ currentStatus = "hidden"

\* the identity the Listener publishes under: the sanitized first workspace
\* root, or the sentinel when no workspace is open
ListenerIdentity ==
    IF folders # << >> /\ sanitizeWorkspacePath(folders[1]) # << >>
    THEN sanitizeWorkspacePath(folders[1])
    ELSE DEFAULT_KEY

NoFallback ==
    ~Exists(fs, PortsFile(DEFAULT_KEY)) /\ ~Exists(fs, LEGACY_PORT_FILE)

\* C9: while the record the Listener published stands, resolve(identity)
\* returns the bound port; after the retract, with no sentinel and no legacy
\* record, resolve(identity) is a DiscoveryMiss.
C9_RoundTrip ==
    /\ server = "listening" =>
          getPortForKey(fs, ListenerIdentity) = IntResult(port)
    /\ (server = "closed" /\ portFilePath # Undefined /\ NoFallback) =>
          getPortForKey(fs, ListenerIdentity) = DiscoveryMiss

\* the Bridge of the Listener's workspace resolved after the retract
C9_Witness ==
    /\ server = "closed" /\ portFilePath # Undefined /\ NoFallback
    /\ port = 8000
    /\ sanitizeWorkspacePath(cwd) = ListenerIdentity
    /\ resolved = DiscoveryMiss

Parses(f, p) == Exists(f, p) /\ ParseInt(Trim(f[p])).kind = "int"

RECURSIVE FirstParsed(_, _)
FirstParsed(f, cands) ==
    IF cands = << >> THEN DiscoveryMiss
    ELSE IF Parses(f, Head(cands)) THEN ParseInt(Trim(f[Head(cands)]))
    ELSE FirstParsed(f, Tail(cands))

\* C10: a resolve returns the port of the first of identity record, sentinel
\* record, legacy record that exists and parses as an integer, skipping a
\* candidate that is absent or does not parse, and is a DiscoveryMiss when
\* there is none (never a port that is no integer).
C10_FirstParsedCandidate ==
    [][resolved' # resolved =>
        resolved' = FirstParsed(fs, Candidates(sanitizeWorkspacePath(cwd)))]_vars

\* C11: the Listener has written its record only with the bind done, and the
\* record holds the bound port until cleanup(); once cleanup() has run the
\* record of this Listener is absent, in every state from then on, whichever
\* of the bind's callback and cleanup() came first.
C11_RecordLifecycle ==
    /\ portFilePath # Undefined =>
          /\ server \in {"listening", "closed"}
          /\ port \in ephemeral
          /\ ~cleanedUp =>
                Exists(fs, portFilePath) /\ fs[portFilePath] = StringOf(port)
    /\ (cleanedUp /\ portFilePath # Undefined) => ~Exists(fs, portFilePath)

\* the record a listening Listener published stands as written
Holds(srv, path, p) ==
    srv = "listening" /\ Exists(fs, path) /\ fs[path] = StringOf(p)

\* C12: no record has two owners, and in a step through which a Listener
\* stays live the record it published is neither overwritten nor deleted:
\* only its own cleanup() ends it.
C12_ExclusiveOwnership ==
    [][/\ ~(server' = "listening" /\ peer'.server = "listening"
              /\ portFilePath' = peer'.portFilePath)
       /\ (Holds(server, portFilePath, port) /\ server' = "listening") =>
              (Exists(fs', portFilePath) /\ fs'[portFilePath] = fs[portFilePath])
       /\ (Holds(peer.server, peer.portFilePath, peer.port)
              /\ peer'.server = "listening") =>
              (Exists(fs', peer.portFilePath)
                 /\ fs'[peer.portFilePath] = fs[peer.portFilePath])]_vars

\* the pings that went out
SentPings(ps) == SelectSeq(ps, LAMBDA x : x.sent)

Contains(text, piece) == \E i \in 1..Len(text) : text[i] = piece

\* none of the identity, sentinel and legacy records of the Bridge exists
NoRecord == \A i \in 1..3 : ~Exists(fs, Candidates(sanitizeWorkspacePath(cwd))[i])

\* a handler reaches its tool: at its arrival, or when its thinking ping settles
BodyStep ==
    \/ started' = started + 1
    \/ \E c \in BagToSet(toolCalls) :
          c.pc = "pingThinking" /\ CopiesIn(c, toolCalls') < CopiesIn(c, toolCalls)

\* the handler of a call of the tool `name` that arrives now runs to its return,
\* sends nothing and returns the not-running error
MissesNow(name) ==
    LET b == RunEntry(NewCall(name))
    IN  /\ b.pc = "return"
        /\ b.result.returned /\ b.result.isError
        /\ Contains(b.result.text, "not running")
        /\ b.sent = 0 /\ b.commands = << >> /\ SentPings(b.pings) = SentPings(pings)

\* C13: with none of the three records there, the handler of a tool call
\* returns a result in the step in which it reaches its tool (no exception, no
\* await left); for a known tool the result has isError = true and a text
\* that contains "not running", and no command request was sent for the call.
\* This is so for each of the twelve tools.
C13_DiscoveryMiss ==
    [][(NoRecord /\ BodyStep) =>
          /\ \A name \in ToolNames : MissesNow(name)
          /\ lastResult'.result.returned
          /\ BagCardinality(toolCalls') <= BagCardinality(toolCalls)
          /\ commandsSent' = << >>
          /\ lastResult'.tool \in ToolNames =>
                /\ lastResult'.result.isError
                /\ Contains(lastResult'.result.text, "not running")
                /\ lastResult'.sent = 0]_vars

\* a known tool has been called with no record in the store, after the
\* Listener retracted its record; another call was in flight
C13_Witness ==
    /\ NoRecord
    /\ server = "closed"
    /\ lastResult.tool = "save_all_files"
    /\ lastResult.result.isError
    /\ Contains(lastResult.result.text, "not running")
    /\ lastResult.sent = 0
    /\ activeToolCalls = 1

\* the handler c awaited its command's response from a port on which nothing
\* listens, and resumes in this step
RefusedStep(c) ==
    /\ c.pc = "command" /\ ~Live(c.to)
    /\ CopiesIn(c, toolCalls') < CopiesIn(c, toolCalls)

\* the result the handler that resumed in this step has produced: returned
\* in this step, or held while the idle ping is awaited
ProducedResults ==
    {r \in {lastResult'.result} : r.returned}
        \cup {d.result : d \in {e \in BagToSet(toolCalls') :
                                    e.pc = "pingIdle"
                                    /\ CopiesIn(e, toolCalls') > CopiesIn(e, toolCalls)}}

\* C14: a tool call whose command went to a port on which no Listener listens
\* ends with the tool-level error of a missing record: isError = true and
\* the not-running text.
C14_StaleRecord ==
    [][\A c \in BagToSet(toolCalls) :
          RefusedStep(c) =>
             /\ ProducedResults # {}
             /\ \A r \in ProducedResults :
                   /\ r.isError
                   /\ Contains(r.text, "not running")
                   /\ r = ErrorResult(NotRunningMessage(cwd))]_vars

\* the sequence is thinking, idle, thinking, idle, ...
Alternates(ps) ==
    \A i \in 1..Len(ps) : ps[i].status = IF i % 2 = 1 THEN "thinking" ELSE "idle"

\* a batch is open, that is tool calls are counted in flight, iff the last of
\* the pings ps is a thinking ping
Brackets(ps) == activeToolCalls > 0 <=> Len(ps) % 2 = 1

Resolvable == ValidPort(getPort(fs, cwd))

\* the calls of sendStatusUpdate made in this step
NewPings == SubSeq(pings', Len(pings) + 1, Len(pings'))

Responded == lastResponse'.status \in {200, 500}

\* C15: a command name that is not in the dispatch table is answered 500 with
\* {success: false, error: "Unknown command: X"}; no host capability is
\* called, and the connection is answered by that step.
C15_UnknownCommand ==
    [][\A x \in UnknownNames :
          lastResponse'.command = x =>
             /\ lastResponse'.status = 500
             /\ lastResponse'.body
             /\ ~lastResponse'.success
             /\ lastResponse'.error = <<"Unknown command: ", x>>
             /\ hostCall' = NoCall
             /\ UNCHANGED HostState
             /\ CopiesIn(Reading, conns') = CopiesIn(Reading, conns) - 1
             /\ BagCardinality(conns') = BagCardinality(conns) - 1]_vars

\* a name every object inherits has just been answered as unknown
C15_Witness ==
    /\ lastResponse.command = "constructor"
    /\ lastResponse.error = <<"Unknown command: ", "constructor">>
    /\ hostCall = NoCall

\* C16: every accepted request gets exactly one response: none is left with
\* its handling over and no answer, a request leaves exactly in a step that
\* answers, the answer is 200 with success true only for a parsed body whose
\* handler completed, and 500 with success false and a message otherwise.
C16_ExactlyOneResponse ==
    /\ [](\A r \in BagToSet(conns) : r.phase # "hung")
    /\ [][/\ (BagCardinality(conns') < BagCardinality(conns)) <=> Responded
          /\ BagCardinality(conns') >= BagCardinality(conns) - 1
          /\ lastResponse'.status = 200 =>
                /\ lastResponse'.body /\ lastResponse'.success
                /\ lastResponse'.command \in DispatchTable
          /\ lastResponse'.status = 500 =>
                /\ lastResponse'.body /\ ~lastResponse'.success
                /\ lastResponse'.error # << >>]_vars

\* C17: a request whose method is not POST is answered 405 with no body; no
\* handler runs and no host capability is called for it, and the presence
\* state and the time of the last activity stay as they were.
C17_NonPostRejected ==
    [][lastResponse'.status = 405 =>
          /\ ~lastResponse'.body
          /\ hostCall' = NoCall
          /\ UNCHANGED <<conns, HostState>>
          /\ UNCHANGED <<currentStatus, lastRequestTime, flashInterval>>]_vars

\* a non-POST request has just been rejected while the indicator shows idle,
\* long after the last activity
C17_Witness ==
    /\ lastResponse.status = 405
    /\ currentStatus = "idle"
    /\ ~flashInterval
    /\ now - lastRequestTime >= IDLE_AFTER_MS

NoSuchTerminal(name) == <<"No terminal named \"", name, "\"">>
NoActiveTerminal == <<"No active terminal">>
NamedTerminals(name) == {i \in 1..Len(terminals) : terminals[i].name = name}
ActiveTerminals == {0} \cup {terminals[i].id : i \in 1..Len(terminals)}

\* the step answers a terminal command
TerminalStep == lastResponse'.command \in TerminalCommands

\* the step called the command's method on the terminal of this id and
\* answered 200
ActedOn(id) ==
    /\ lastResponse'.status = 200
    /\ hostCall' = <<TerminalCall(lastResponse'.command, id)>>

\* the step answered 500 with this message and touched no terminal
FailedWith(message) ==
    /\ lastResponse'.status = 500
    /\ lastResponse'.error = message
    /\ hostCall' = NoCall
    /\ UNCHANGED HostState

\* C18: name goes before index, index before the active terminal.  With a
\* name the resolution is the same whatever the index and the active
\* terminal are, and fails NoSuchTerminal when no terminal has the name; with
\* an index only it is the same whatever the active terminal is; with neither
\* it is the active terminal, or NoActiveTerminal.  A terminal command acts
\* on the terminal so resolved.
C18_Precedence ==
    /\ [](\A a \in SampleTargets :
            LET f == findTerminal(a, terminals, activeTerminal)
            IN  IF a.name.given THEN
                    /\ \A i \in {NoIndex} \cup {Index(k) : k \in (0 - 1)..5}, t \in ActiveTerminals :
                          findTerminal(TerminalArgs(a.name, i), terminals, t) = f
                    /\ IF NamedTerminals(a.name.value) = {}
                       THEN ~f.ok /\ f.error = NoSuchTerminal(a.name.value)
                       ELSE f.ok /\ f.name = a.name.value
                ELSE IF a.index.given THEN
                    \A t \in ActiveTerminals : findTerminal(a, terminals, t) = f
                ELSE IF activeTerminal = 0
                THEN ~f.ok /\ f.error = NoActiveTerminal
                ELSE f.ok /\ f.id = activeTerminal)
    /\ [][TerminalStep =>
            LET a == lastResponse'.target
            IN  IF a.name.given THEN
                    IF NamedTerminals(a.name.value) = {}
                    THEN FailedWith(NoSuchTerminal(a.name.value))
                    ELSE \E i \in NamedTerminals(a.name.value) : ActedOn(terminals[i].id)
                ELSE IF a.index.given THEN
                    hostCall' # NoCall => hostCall'[1].target = findTerminal(a, terminals, 0).id
                ELSE IF activeTerminal = 0
                THEN FailedWith(NoActiveTerminal)
                ELSE ActedOn(activeTerminal)]_vars

\* a request naming a terminal that does not exist, with an index that does
\* and a terminal active, has just failed
C18_Witness ==
    /\ lastResponse.command = "sendTerminalText"
    /\ lastResponse.target = TerminalArgs(Name("fish"), Index(0))
    /\ lastResponse.error = NoSuchTerminal("fish")
    /\ Len(terminals) = 2
    /\ activeTerminal # 0

\* C19: with no name and an index, a terminal command acts on the terminal at
\* that position of the host's list when 0 <= index < count, and otherwise
\* fails with "Terminal index <index> out of range (0-<count - 1>)" and
\* touches no terminal.
C19_IndexResolution ==
    [][LET a == lastResponse'.target
           i == a.index.value
       IN  (TerminalStep /\ ~a.name.given /\ a.index.given) =>
              IF 0 <= i /\ i < Len(terminals)
              THEN ActedOn(terminals[i + 1].id)
              ELSE FailedWith(<<"Terminal index ">> \o StringOf(i)
                                \o <<" out of range (0-">>
                                \o StringOf(Len(terminals) - 1) \o <<")">>)]_vars

\* index 5 on a host with two terminals has just failed
C19_Witness ==
    /\ lastResponse.command = "sendTerminalText"
    /\ lastResponse.target = TerminalArgs(NoName, Index(5))
    /\ lastResponse.error = <<"Terminal index ", "5", " out of range (0-", "1", ")">>
    /\ Len(terminals) = 2
    /\ hostCall = NoCall

\* C21: a status ping never holds a tool call back: no handler in flight is
\* waiting for the response to a ping, with its command not yet sent or its
\* result not yet returned.
C21_PingsNeverBlock ==
    \A c \in BagToSet(toolCalls) : c.pc \notin {"pingThinking", "pingIdle"}

\* the handler c was in flight and resumes in this step
Resumed(c) == CopiesIn(c, toolCalls') < CopiesIn(c, toolCalls)

\* the handlers left in flight by this step's run
Progressed ==
    {e \in BagToSet(toolCalls') : CopiesIn(e, toolCalls') > CopiesIn(e, toolCalls)}

\* the tool of the handler that ran in this step of the Bridge
StepTools ==
    {e.tool : e \in Progressed} \cup {t \in {lastResult'.tool} : lastResult'.result.returned}

\* the number of command requests sent so far for the call whose handler ran
\* in this step
StepSent ==
    {e.sent : e \in Progressed} \cup {n \in {lastResult'.sent} : lastResult'.result.returned}

\* this step's run produced exactly this result
Produces(result) == ProducedResults = {result}

\* what a handler of the tool t does from its try block on when no ping
\* stands in its way: the unknown-tool result, the error of a failed resolve,
\* or one command request to the resolved port
ReachesBodyAs(t) ==
    LET r == getPort(fs, cwd)
    IN  IF t \notin ToolNames
        THEN Produces(ToolResult(TRUE, <<"Unknown tool: ", t>>)) /\ commandsSent' = << >>
        ELSE IF r = DiscoveryMiss
        THEN Produces(ErrorResult(NotRunningMessage(cwd))) /\ commandsSent' = << >>
        ELSE IF ~ValidPort(r)
        THEN Produces(ErrorResult(<<"Failed to parse URL">>)) /\ commandsSent' = << >>
        ELSE /\ ProducedResults = {}
             /\ Len(commandsSent') = 1
             /\ commandsSent'[1].to = r.value
             /\ \A e \in Progressed : e.pc = "command"

\* C22: a ping's failure or success leaves no trace in the tool call.  A
\* handler whose thinking ping has settled, whatever the outcome, and one
\* whose ping could not be sent at all, go on exactly as a handler that had
\* no ping to send; a handler whose idle ping has settled returns the result
\* it held; and no ping is sent again.
C22_PingFailuresSwallowed ==
    [][/\ \A c \in BagToSet(toolCalls) :
             (c.pc = "pingThinking" /\ Resumed(c)) =>
                /\ ReachesBodyAs(c.tool)
                /\ \A i \in 1..Len(NewPings) : NewPings[i].status = "idle"
       /\ \A c \in BagToSet(toolCalls) :
             (c.pc = "pingIdle" /\ Resumed(c)) =>
                /\ lastResult' = [tool |-> c.tool, sent |-> c.sent, result |-> c.result]
                /\ NewPings = << >>
                /\ commandsSent' = << >>
       /\ (started' = started + 1 /\ \A e \in Progressed : e.pc # "pingThinking") =>
             \A t \in StepTools : ReachesBodyAs(t)]_vars

\* no Listener has ever listened: the thinking ping and the idle ping of a
\* call went to the port of a record left behind and were refused, and the
\* call has returned the outcome of its own command
C22_Witness ==
    /\ server = "none"
    /\ pings = <<[status |-> "thinking", sent |-> TRUE], [status |-> "idle", sent |-> TRUE]>>
    /\ lastResult.tool = "save_all_files"
    /\ lastResult.sent = 1
    /\ lastResult.result = ErrorResult(<<"fetch failed">>)

\* C23: a call of a tool that is not in TOOLS returns the tool-level result
\* with isError = true and the text "Unknown tool: <name>"; no command
\* request is sent for it.
C23_UnknownTool ==
    /\ [](\A c \in BagToSet(toolCalls) :
            c.tool \notin ToolNames => c.sent = 0 /\ c.pc # "command")
    /\ [][(lastResult'.result.returned /\ lastResult'.tool \notin ToolNames) =>
            /\ lastResult'.result =
                  [returned |-> TRUE, isError |-> TRUE,
                   text |-> <<"Unknown tool: ", lastResult'.tool>>]
            /\ lastResult'.sent = 0]_vars

\* an unknown tool has been called while a Listener was listening and its
\* record resolved
C23_Witness ==
    /\ lastResult.tool = "no_such_tool"
    /\ lastResult.result.isError
    /\ lastResult.result.text = <<"Unknown tool: ", "no_such_tool">>
    /\ server = "listening"
    /\ Resolvable

\* the step is a run of a handler of the Bridge
BridgeStep == toolCalls' # toolCalls \/ started' # started

\* the command TOOLS gives for a tool
CommandOf(t) == TOOLS[CHOOSE i \in 1..Len(TOOLS) : TOOLS[i].name = t].command

\* C24: a call of a known tool sends one command request, with the command
\* TOOLS maps the tool to, to the resolved port, and never another; when the
\* Listener answers with success = true the result is the Listener's result
\* and no error, and when it answers with success = false the result is
\* "Error: <error>" with isError = true.
C24_Forwarding ==
    [][/\ (BridgeStep /\ commandsSent' # << >>) =>
             /\ Len(commandsSent') = 1
             /\ StepSent = {1}
             /\ \A t \in StepTools :
                   /\ t \in ToolNames
                   /\ commandsSent'[1].command = CommandOf(t)
                   /\ t = "save_all_files" => commandsSent'[1].command = "saveAll"
             /\ commandsSent'[1].to = getPort(fs, cwd).value
       /\ \A c \in BagToSet(toolCalls) :
             (c.pc = "command" /\ Live(c.to) /\ Resumed(c) /\ lastAnswer' # NoAnswer) =>
                /\ commandsSent' = << >>
                /\ StepSent = {1}
                /\ IF lastAnswer'.success
                   THEN Produces([returned |-> TRUE, isError |-> FALSE,
                                  text |-> Stringify(lastAnswer')])
                   ELSE Produces([returned |-> TRUE, isError |-> TRUE,
                                  text |-> <<"Error: ">> \o lastAnswer'.text])]_vars

\* save_all_files has been called with the Listener listening, and has
\* returned the Listener's result after one command request
C24_Witness ==
    /\ server = "listening"
    /\ lastAnswer.success
    /\ lastResult.tool = "save_all_files"
    /\ lastResult.sent = 1
    /\ lastResult.result = [returned |-> TRUE, isError |-> FALSE, text |-> <<"All files saved">>]

\* C25: the Bridge lists the twelve tools, set-agent-status is none of them,
\* and the command of each is a case of the Listener's dispatch, so that no
\* command request the Bridge sends for a tool is an unknown command.
C25_ToolsAndCommands ==
    /\ Len(TOOLS) = 12
    /\ Cardinality(ToolNames) = 12
    /\ ToolNames = {"save_all_files", "close_all_editors", "close_active_editor",
                    "open_file", "get_open_files", "show_message", "execute_command",
                    "list_terminals", "create_terminal", "send_terminal_text",
                    "show_terminal", "close_terminal"}
    /\ \A i \in 1..Len(TOOLS) :
          /\ TOOLS[i].command \in DispatchTable
          /\ TOOLS[i].command \notin UnknownNames
          /\ TOOLS[i].command # "setAgentStatus"
    /\ \A i \in 1..Len(commandsSent) : commandsSent[i].command \in DispatchTable

\* the command of a terminal tool has just been sent to a Listener
C25_Witness ==
    /\ commandsSent = <<[command |-> "sendTerminalText", to |-> port]>>
    /\ server = "listening"

\* the workspace paths in use: the Bridge's and the Listener's
PathsInUse == {cwd} \cup {folders[i] : i \in 1..Len(folders)}

\* C26: sanitizing a sanitized path changes nothing, and a sanitized path has
\* no separator in it; so the name of the record a Listener publishes has none.
C26_SanitizeIdempotent ==
    /\ \A P \in PathsInUse :
          /\ sanitizeWorkspacePath(sanitizeWorkspacePath(P)) = sanitizeWorkspacePath(P)
          /\ ~Contains(sanitizeWorkspacePath(P), "/")
    /\ portFilePath # Undefined => ~Contains(portFilePath[2], "/")

\* a Listener in a workspace with a separator at the start, in the middle and
\* at the end of its path has published its record
C26_Witness ==
    /\ folders = << <<"/", "/", "/">> >>
    /\ portFilePath = PortsFile(<<"-", "-">>)
    /\ server = "listening"

Absolute(P) == P # << >> /\ Head(P) = "/"

\* C27: two different absolute paths without the substitute character in
\* them have different keys.
C27_SanitizeInjective ==
    \A P \in PathsInUse, Q \in PathsInUse :
        (/\ P # Q
         /\ Absolute(P) /\ Absolute(Q)
         /\ ~Contains(P, "-") /\ ~Contains(Q, "-"))
            => sanitizeWorkspacePath(P) # sanitizeWorkspacePath(Q)

\* the Listener in //a has published its record and the Bridge in /a has
\* looked for its own and found none
C27_Witness ==
    /\ folders = << <<"/", "/", "a">> >>
    /\ cwd = <<"/", "a">>
    /\ server = "listening"
    /\ resolved = DiscoveryMiss

\* C28: with a name, a terminal command acts on the terminal of that name
\* when exactly one open terminal has it, and fails NoSuchTerminal, touching
\* no terminal, when none or more than one has it.
C28_UniqueName ==
    [][LET a == lastResponse'.target
       IN  (TerminalStep /\ a.name.given) =>
              IF Cardinality(NamedTerminals(a.name.value)) = 1
              THEN \E i \in NamedTerminals(a.name.value) : ActedOn(terminals[i].id)
              ELSE FailedWith(NoSuchTerminal(a.name.value))]_vars

\* C29: the record path of a Listener with a workspace open is never the
\* path of the sentinel record.
C29_WorkspaceNeverSentinel ==
    folders # << >> => getPortFilePath(folders) # PortsFile(DEFAULT_KEY)

\* the identity of a window: the sentinel with no workspace open, else the
\* key of its first workspace root
Identity(fl) ==
    IF fl = << >> THEN <<"sentinel">> ELSE <<"workspace", sanitizeWorkspacePath(fl[1])>>

\* the Listener is live and has published under the Bridge's identity
Published ==
    /\ server = "listening"
    /\ ~cleanedUp
    /\ folders # << >>
    /\ Identity(folders) = Identity(<<cwd>>)

\* C30: while a live Listener has published under the Bridge's workspace
\* identity, the Bridge resolves to that Listener's port and every command
\* request it sends goes there, whatever a window of another identity
\* (another workspace, or none) publishes or retracts and whatever sentinel
\* and legacy records exist.
C30_WorkspaceIsolation ==
    /\ []((Published /\ Identity(peer.folders) # Identity(folders)) =>
            getPort(fs, cwd) = IntResult(port))
    /\ [][(Published /\ Identity(peer.folders) # Identity(folders) /\ BridgeStep) =>
            \A i \in 1..Len(commandsSent') : commandsSent'[i].to = port]_vars

\* C31: while a request is in flight at the Listener, accepted and not yet
\* answered, the presence state is not idle.
C31_NeverIdleInFlight ==
    conns # EmptyBag => currentStatus # "idle"

\* C34: once cleanup() has run and the server is closed, neither the flash
\* timer nor the poll timer is armed, whatever requests accepted before the
\* cleanup do afterwards.
C34_QuiescentAfterCleanup ==
    (cleanedUp /\ server = "closed") => ~flashInterval /\ ~activityPollInterval

\* C32: activeToolCalls is the number of tool-call handlers that have started
\* and not yet finished: never negative, one less for each handler that ends,
\* on whatever path, and 0 when no tool call is in flight.
C32_CounterMatchesInFlight ==
    /\ activeToolCalls >= 0
    /\ activeToolCalls = BagCardinality(toolCalls)
    /\ toolCalls = EmptyBag => activeToolCalls = 0

\* C37: the text of a successful result is the result itself for a string,
\* "OK" for an empty result, and the JSON text for any other value; the tool
\* result is then no error and has that one text.
C37_StringifyTotal ==
    [][\A c \in BagToSet(toolCalls) :
          (c.pc = "command" /\ Resumed(c) /\ lastAnswer'.success) =>
             /\ lastAnswer'.kind \in {"string", "null", "json"}
             /\ \E text \in {lastAnswer'.text, <<"OK">>, <<"JSON:">> \o lastAnswer'.text} :
                   /\ Produces([returned |-> TRUE, isError |-> FALSE, text |-> text])
                   /\ lastAnswer'.kind = "string" <=> text = lastAnswer'.text
                   /\ lastAnswer'.kind = "null" <=> text = <<"OK">>
                   /\ lastAnswer'.kind = "json" <=> text = <<"JSON:">> \o lastAnswer'.text]_vars

\* a tool call has returned "OK" for an empty result of the Listener
C37_Witness ==
    /\ lastAnswer.success /\ lastAnswer.kind = "null"
    /\ lastResult.result = [returned |-> TRUE, isError |-> FALSE, text |-> <<"OK">>]
    /\ lastResult.tool = "send_terminal_text"

\* the open terminal at position i is what the selector a selects
Matches(a, i) ==
    IF a.name.given THEN terminals[i].name = a.name.value
    ELSE IF a.index.given THEN i = a.index.value + 1
    ELSE terminals[i].id = activeTerminal

\* C35: a terminal command acts in the step in which it resolves: the
\* terminal it acts on is open and matches the selector of the request in the
\* state the action starts from, whatever the other connections have created
\* and closed before.
C35_ResolveAndActAtomic ==
    [][(TerminalStep /\ hostCall' # NoCall) =>
          /\ Len(hostCall') = 1
          /\ hostCall'[1].op = TerminalCall(lastResponse'.command, 0).op
          /\ \E i \in 1..Len(terminals) :
                /\ hostCall'[1].target = terminals[i].id
                /\ Matches(lastResponse'.target, i)]_vars

\* text has been sent to the terminal at position 0, which is the one a
\* request created after the first terminals had been closed; another
\* request is in flight
C35_Witness ==
    /\ lastResponse.command = "sendTerminalText"
    /\ lastResponse.status = 200
    /\ lastResponse.target = TerminalArgs(NoName, Index(0))
    /\ terminals = <<Terminal(1, "zsh")>>
    /\ hostCall = <<TerminalCall("sendTerminalText", 1)>>
    /\ activeTerminal = 0
    /\ InFlight(Reading)

\* C36: the handler runs once per request, after the whole body has arrived,
\* on the text of the whole body: a step that answers a request ends a
\* connection that has nothing left to arrive, and the text it sends to the
\* terminal is the decoding of all the bytes the client sent.
C36_WholeBodyParsed ==
    [][lastResponse'.command = "sendTerminalText" =>
          \E r \in BagToSet(conns) :
             /\ conns' = Remove(r)
             /\ r.rest = << >>
             /\ hostCall' # NoCall => hostCall'[1].arg = Decode(r.sent)]_vars

\* a tool call is in flight and the thinking ping of its batch has reached
\* the Listener
Announced ==
    /\ activeToolCalls > 0
    /\ \A c \in BagToSet(toolCalls) : c.pc = "pingThinking" => BagIn(c, arrived)

\* the request of handler c reaches the Listener in this step
Arrives(c) == arrived' = arrived (+) SetToBag({c})

\* C33: the pings of one Bridge reach the Listener in the order of the
\* Bridge's activity: the last ping received is thinking while a call is in
\* flight with its batch's thinking ping delivered, and idle once every call
\* has returned; no command arrives before its batch's thinking ping, and no
\* idle ping arrives after the thinking ping of a later batch.
C33_PingsInOrder ==
    /\ [](Announced => lastPing = "thinking")
    /\ []((toolCalls = EmptyBag /\ \E i \in 1..Len(pings) : pings[i].sent)
             => lastPing = "idle")
    /\ [][\A c \in BagToSet(toolCalls) :
             /\ (c.pc = "command" /\ Arrives(c)) => Announced
             /\ (c.pc = "pingIdle" /\ Arrives(c)) => ~Announced]_vars

\* C38: in the timer-per-call generation a setAgentStatus call cancels the
\* pending auto-hide timer, so at most one is pending; thinking arms one of
\* 10 minutes, idle one of 3 minutes, any other status hides the indicator and
\* arms none; a timer that hides the indicator was armed by the latest call.
C38_TimerPerCall ==
    /\ [](Cardinality(timed.timers) <= 1)
    /\ [][timed'.calls = timed.calls + 1 =>
             /\ timed'.status = "thinking" =>
                   /\ timed'.timers = {[id |-> timed'.calls, due |-> timed.now + 600000]}
                   /\ timed'.visible
             /\ timed'.status = "idle" =>
                   /\ timed'.timers = {[id |-> timed'.calls, due |-> timed.now + 180000]}
                   /\ timed'.visible
             /\ timed'.status \notin {"thinking", "idle"} =>
                   /\ timed'.timers = {}
                   /\ ~timed'.visible]_vars
    /\ [][timed'.fired # NoTimeout =>
             /\ timed'.fired = timed.calls
             /\ ~timed'.visible
             /\ timed'.timers = {}]_vars

\* a thinking call at minute 3 replaced the timer of an idle call; its own
\* timer has hidden the indicator at minute 13
C38_Witness ==
    /\ timed.fired = 2
    /\ timed.calls = 2
    /\ timed.status = "thinking"
    /\ timed.now = 780000
    /\ ~timed.visible

=============================================================================
